---- MODULE Spec2Model ----
(***************************************************************************)
(* Reconciliation of product, vendor and customer codes across the CT,     *)
(* JEEVES and STIBO sources: the code normalizers, the presence matrix     *)
(* builders and the version diff.                                          *)
(*                                                                         *)
(* A Python str is a sequence of one-character strings, so that strip,     *)
(* float(), str(), isdigit(), format and string comparison are computed    *)
(* character by character as the interpreter computes them.  A cell value  *)
(* is a record tagged by its Python type in field k.                       *)
(***************************************************************************)
EXTENDS Integers, Sequences, FiniteSets, TLC

VARIABLES
    cell,       \* the scalar cell value handed to a normalizer
    normOut,    \* [fn, res]: the normalizer applied to cell and its outcome
    jeves,      \* product frames: key column of jeves_df
    ct,         \*                 key column of ct_df
    stibo,      \*                 key column of stibo_df
    range,      \* result of create_range_reconciliation, or Pending
    srcs,       \* the six normalized key columns given to build_reconciliation
    rec,        \* result of build_reconciliation, or Pending
    books,      \* market run: the key cells of the source sheets, and product_df
    invoice,    \*   locals and outcome of run_invoice_ordering_reconciliation
    dfOld,      \* older frame given to _diff_codes (NoFrame for None)
    dfNew,      \* newer frame given to _diff_codes
    diffOut,    \* result of _diff_codes, or Pending
    outputDir,  \* dashboard: the names of the subdirectories of output/
    versions,   \*   result of list_output_versions, or Pending
    inputs,     \* product run: content of each input file, or Missing
    hashFile,   \*   content of .reconciliation_hash.json, or Absent
    outputs,    \*   the Range_Reconciliation*.xlsx files, oldest mtime first
    clock,      \*   datetime.now(), in seconds
    run,        \*   position and locals of reconcile_products.main
    args,       \* orchestrator: the parsed --market and --domains
    extraction, \*   per market, what the extraction of its sources meets
    orch,       \*   position and locals of run_reconciliation.main
    sheet,      \* extractor: the worksheet read
    workbook,   \*   the workbook read by an extractor that picks a sheet by name
    extractOut  \*   outcome of the extractor, or Pending

vars == <<cell, normOut, jeves, ct, stibo, range, srcs, rec, books, invoice, dfOld, dfNew,
          diffOut,
          outputDir, versions,
          inputs, hashFile, outputs, clock, run, args, extraction, orch, sheet, workbook,
          extractOut>>

normVars == <<cell, normOut>>
rangeVars == <<jeves, ct, stibo, range>>
recVars == <<srcs, rec, books, invoice>>
diffVars == <<dfOld, dfNew, diffOut, outputDir, versions>>
runVars == <<inputs, hashFile, outputs, clock, run>>
orchVars == <<args, extraction, orch>>
extractVars == <<sheet, workbook, extractOut>>

-----------------------------------------------------------------------------
(* Bounds of the explored inputs *)

\* longest string cell over Alphabet
MaxStrLen == 4
\* longest digit string / most digits of an integer cell
MaxIntDigits == 5
\* largest integer part of a float cell
MaxFloatInt == 11
\* most distinct cells in the key column of one product frame
MaxProductCells == 2
\* most distinct keys in one of the six invoice / ordering frames
MaxSourceKeys == 1
\* most distinct cells in the key column of a compared version
MaxDiffCells == 3
\* last second the clock of the product runs reaches
MaxClock == 2
\* most columns of a worksheet read by an extractor
MaxHeaders == 2
\* most sheets of a workbook read by an extractor
MaxSheets == 2
\* most version folders under output/
MaxVersions == 3

(* Program constants *)

\* f"{n:04d}"
PadWidth == 4
\* 0 <= n < 10000
PadLimit == 10000

Pending == [k |-> "pending"]

-----------------------------------------------------------------------------
(* Python values *)

None == [k |-> "none"]
PyStr(s) == [k |-> "str", s |-> s]
PyInt(n) == [k |-> "int", v |-> n]
\* an int beyond the range of PyInt, by its sign and decimal digits
PyBigInt(neg, d) == [k |-> "bigint", neg |-> neg, d |-> d]
\* a finite float (-1)^neg * (ip + frac/10)
PyFloat(neg, ip, frac) == [k |-> "float", neg |-> neg, ip |-> ip, frac |-> frac]
NaN == [k |-> "nan"]
Inf(neg) == [k |-> "inf", neg |-> neg]
PyBool(b) == [k |-> "bool", b |-> b]

Return(v) == [kind |-> "return", val |-> v]
Raise(e) == [kind |-> "raise", exc |-> e]

-----------------------------------------------------------------------------
(* Characters and strings *)

Digits == <<"0", "1", "2", "3", "4", "5", "6", "7", "8", "9">>
DigitSet == {Digits[i] : i \in 1..10}
IsDigit(c) == c \in DigitSet
DigitVal(c) == CHOOSE d \in 0..9 : Digits[d + 1] = c
Whitespace == {" "}

\* code point of the characters that occur in keys (ord)
Ord(c) ==
    CASE c = " " -> 32
      [] c = "+" -> 43
      [] c = "," -> 44
      [] c = "-" -> 45
      [] c = "." -> 46
      [] IsDigit(c) -> 48 + DigitVal(c)
      [] c = "A" -> 65
      [] c = "B" -> 66
      [] c = "C" -> 67
      [] c = "F" -> 70
      [] c = "N" -> 78
      [] c = "T" -> 84
      [] c = "a" -> 97
      [] c = "e" -> 101
      [] c = "f" -> 102
      [] c = "i" -> 105
      [] c = "l" -> 108
      [] c = "n" -> 110
      [] c = "o" -> 111
      [] c = "r" -> 114
      [] c = "s" -> 115
      [] c = "u" -> 117
      [] OTHER -> 127

UpperLetters == <<"A", "B", "C", "D", "E", "F", "G", "H", "I", "J", "K", "L", "M", "N", "O", "P", "Q", "R", "S", "T", "U", "V", "W", "X", "Y", "Z">>
LowerLetters == <<"a", "b", "c", "d", "e", "f", "g", "h", "i", "j", "k", "l", "m", "n", "o", "p", "q", "r", "s", "t", "u", "v", "w", "x", "y", "z">>

\* str.lower of one character
Lower(c) ==
    IF \E i \in 1..Len(UpperLetters) : UpperLetters[i] = c
    THEN LowerLetters[CHOOSE i \in 1..Len(UpperLetters) : UpperLetters[i] = c]
    ELSE c

LowerStr(s) == [i \in 1..Len(s) |-> Lower(s[i])]

RECURSIVE LStrip(_, _)
\* drop the leading characters that are in chars
LStrip(s, chars) ==
    IF s # <<>> /\ Head(s) \in chars THEN LStrip(Tail(s), chars) ELSE s

RECURSIVE RStrip(_, _)
\* drop the trailing characters that are in chars
RStrip(s, chars) ==
    IF s # <<>> /\ s[Len(s)] \in chars
    THEN RStrip(SubSeq(s, 1, Len(s) - 1), chars)
    ELSE s

\* str.strip()
Strip(s) == RStrip(LStrip(s, Whitespace), Whitespace)

AllDigits(s) == \A i \in 1..Len(s) : IsDigit(s[i])

\* str.isdigit()
IsDigitStr(s) == s # <<>> /\ AllDigits(s)

RECURSIVE DigitsToInt(_)
\* int(s) of a digit string
DigitsToInt(s) ==
    IF s = <<>> THEN 0
    ELSE 10 * DigitsToInt(SubSeq(s, 1, Len(s) - 1)) + DigitVal(s[Len(s)])

RECURSIVE NatToStr(_)
NatToStr(n) ==
    IF n < 10 THEN <<Digits[n + 1]>>
    ELSE Append(NatToStr(n \div 10), Digits[(n % 10) + 1])

\* str(n) of an int
IntToStr(n) == IF n < 0 THEN <<"-">> \o NatToStr(-n) ELSE NatToStr(n)

RECURSIVE Zeros(_)
Zeros(k) == IF k <= 0 THEN <<>> ELSE <<"0">> \o Zeros(k - 1)

\* f"{n:04d}" for n >= 0
Pad4(n) == LET d == NatToStr(n) IN Zeros(PadWidth - Len(d)) \o d

\* str(x) of a finite float: repr with one fractional digit
FloatToStr(f) ==
    (IF f.neg THEN <<"-">> ELSE <<>>) \o NatToStr(f.ip) \o <<".", Digits[f.frac + 1]>>

\* str(value)
Str(v) ==
    CASE v.k = "none" -> <<"N", "o", "n", "e">>
      [] v.k = "str" -> v.s
      [] v.k = "int" -> IntToStr(v.v)
      [] v.k = "bigint" -> (IF v.neg THEN <<"-">> ELSE <<>>) \o v.d
      [] v.k = "float" -> FloatToStr(v)
      [] v.k = "nan" -> <<"n", "a", "n">>
      [] v.k = "inf" -> (IF v.neg THEN <<"-">> ELSE <<>>) \o <<"i", "n", "f">>
      [] v.k = "bool" -> IF v.b THEN <<"T", "r", "u", "e">> ELSE <<"F", "a", "l", "s", "e">>

\* position of the first "." of s, or 0
DotPos(s) ==
    IF \E i \in 1..Len(s) : s[i] = "."
    THEN CHOOSE i \in 1..Len(s) : s[i] = "." /\ \A j \in 1..(i - 1) : s[j] # "."
    ELSE 0

(* Integers as decimal digit strings, for the magnitudes where a double is no
   longer exact *)

\* the digit string without leading zeros ("0" for zero)
StripZeros(d) == LET t == LStrip(d, {"0"}) IN IF t = <<>> THEN <<"0">> ELSE t

RECURSIVE DigitsLexLess(_, _)
DigitsLexLess(a, b) ==
    IF a = <<>> THEN FALSE
    ELSE IF Head(a) = Head(b) THEN DigitsLexLess(Tail(a), Tail(b))
    ELSE DigitVal(Head(a)) < DigitVal(Head(b))

\* a < b for two digit strings without leading zeros
LessDigits(a, b) ==
    Len(a) < Len(b) \/ (Len(a) = Len(b) /\ DigitsLexLess(a, b))

RECURSIVE HalveFrom(_, _, _)
\* long division by two, from the most significant digit
HalveFrom(d, carry, acc) ==
    IF d = <<>> THEN [q |-> StripZeros(acc), r |-> carry]
    ELSE LET cur == 10 * carry + DigitVal(Head(d))
         IN  HalveFrom(Tail(d), cur % 2, Append(acc, Digits[(cur \div 2) + 1]))

HalveDigits(d) == HalveFrom(d, 0, <<>>)

RECURSIVE AddFrom(_, _, _, _)
\* factor * d + carry, from the least significant digit
AddFrom(d, factor, carry, acc) ==
    IF d = <<>> THEN (IF carry = 0 THEN acc ELSE <<Digits[carry + 1]>> \o acc)
    ELSE LET cur == factor * DigitVal(d[Len(d)]) + carry
         IN  AddFrom(SubSeq(d, 1, Len(d) - 1), factor, cur \div 10,
                     <<Digits[(cur % 10) + 1]>> \o acc)

DoubleDigits(d) == AddFrom(d, 2, 0, <<>>)
IncDigits(d) == AddFrom(d, 1, 1, <<>>)
IsOddDigits(d) == DigitVal(d[Len(d)]) % 2 = 1

RECURSIVE DoubleTimes(_, _)
DoubleTimes(d, e) == IF e = 0 THEN d ELSE DoubleTimes(DoubleDigits(d), e - 1)

\* 2^53: below it every integer is a double
Two53 == <<"9", "0", "0", "7", "1", "9", "9", "2", "5", "4", "7", "4", "0", "9", "9", "2">>

RECURSIVE ReduceMantissa(_, _, _, _)
\* halve m until it fits 53 bits; guard is the last bit dropped, sticky
\* tells whether anything below it was not zero
ReduceMantissa(m, e, guard, sticky) ==
    IF LessDigits(m, Two53) THEN [m |-> m, e |-> e, guard |-> guard, sticky |-> sticky]
    ELSE LET h == HalveDigits(m)
         IN  ReduceMantissa(h.q, e + 1, h.r, guard = 1 \/ sticky)

\* the integer a double holds for the decimal integer d (sticky: a non-zero
\* fraction follows): round to nearest, ties to even, on 53 bits
RoundToDouble(d, sticky) ==
    LET r == ReduceMantissa(d, 0, 0, sticky)
        up == r.guard = 1 /\ (r.sticky \/ IsOddDigits(r.m))
    IN  IF r.e = 0 THEN d
        ELSE DoubleTimes(IF up THEN IncDigits(r.m) ELSE r.m, r.e)

\* float(s) of a string, for strings without exponent or underscore and
\* with a fraction short enough to be kept: surrounding whitespace is
\* dropped, then [sign] (inf | infinity | nan | digits [. [digits]] |
\* . digits); anything else is a ValueError.  A finite float is its sign,
\* the digits ipd of its integer part and whether its fraction is zero.
ParseFloat(s) ==
    LET t == Strip(s)
        signed == t # <<>> /\ Head(t) \in {"-", "+"}
        neg == t # <<>> /\ Head(t) = "-"
        body == IF signed THEN Tail(t) ELSE t
        low == LowerStr(body)
        dot == DotPos(body)
        intPart == IF dot = 0 THEN body ELSE SubSeq(body, 1, dot - 1)
        fracPart == IF dot = 0 THEN <<>> ELSE SubSeq(body, dot + 1, Len(body))
        fracZero == \A i \in 1..Len(fracPart) : fracPart[i] = "0"
        ipd == StripZeros(intPart)
    IN  IF low = <<"n", "a", "n">> THEN [ok |-> TRUE, val |-> NaN]
        ELSE IF low = <<"i", "n", "f">> \/ low = <<"i", "n", "f", "i", "n", "i", "t", "y">>
        THEN [ok |-> TRUE, val |-> Inf(neg)]
        ELSE IF /\ AllDigits(intPart)
                /\ AllDigits(fracPart)
                /\ Len(intPart) + Len(fracPart) > 0
        THEN [ok |-> TRUE,
              val |-> [k |-> "float", neg |-> neg,
                       ipd |-> RoundToDouble(ipd, ~fracZero),
                       fracZero |-> fracZero \/ ~LessDigits(ipd, Two53)]]
        ELSE [ok |-> FALSE]

\* float.is_integer() of a parsed float
ParsedIsInteger(f) == f.k = "float" /\ f.fracZero

\* str(n) of the int of sign neg and digits d
SignedDigits(neg, d) == IF neg /\ d # <<"0">> THEN <<"-">> \o d ELSE d

\* int(x) of a finite float cell: truncation toward zero
FloatToInt(f) == IF f.neg THEN -f.ip ELSE f.ip

\* isinstance(val, (int, float)) and not isinstance(val, bool)
IsNumber(v) == v.k \in {"int", "bigint", "float", "nan", "inf"}

\* isinstance(val, str) and not val.strip()
IsBlankStr(v) == v.k = "str" /\ Strip(v.s) = <<>>

RECURSIVE SeqLess(_, _)
\* a < b for two Python str: by code point, a proper prefix first
SeqLess(a, b) ==
    IF b = <<>> THEN FALSE
    ELSE IF a = <<>> THEN TRUE
    ELSE IF Head(a) = Head(b) THEN SeqLess(Tail(a), Tail(b))
    ELSE Ord(Head(a)) < Ord(Head(b))

-----------------------------------------------------------------------------
(* The code normalizers *)

\* str(int(float_val)): the branch of clean_product_code taken when
\* float(str_val) is an integer
CleanInteger(f) == PyStr(SignedDigits(f.neg, f.ipd))

\* clean_product_code(value)
clean_product_code(value) ==
    IF value = None THEN Return(None)
    ELSE LET str_val == Str(value)
             float_val == ParseFloat(str_val)
         IN  IF float_val.ok
             THEN IF ParsedIsInteger(float_val.val)
                  THEN Return(CleanInteger(float_val.val))
                  ELSE Return(PyStr(str_val))
             ELSE Return(PyStr(Strip(str_val)))

\* the padding one digit short: f"{n:03d}"
PadOrStrShort(n) ==
    IF 0 <= n /\ n < PadLimit
    THEN IF n < 1000 THEN SubSeq(Pad4(n), 2, 4) ELSE Pad4(n)
    ELSE IntToStr(n)

\* f"{n:04d}" if 0 <= n < 10000 else str(n)
PadOrStr(n) == IF 0 <= n /\ n < PadLimit THEN Pad4(n) ELSE IntToStr(n)

\* the numeric branch of both zero-pad normalizers: n = int(float(val)),
\* a ValueError for nan and an OverflowError for inf, then the padding
NumberCode(val) ==
    CASE val.k = "int" -> Return(PyStr(PadOrStr(val.v)))
      [] val.k = "float" -> Return(PyStr(PadOrStr(FloatToInt(val))))
      [] val.k = "bigint" ->
            Return(PyStr(SignedDigits(val.neg, RoundToDouble(val.d, FALSE))))
      [] val.k = "nan" -> Raise("ValueError")
      [] val.k = "inf" -> Raise("OverflowError")

\* digit strings returned as they are
PadDigitStrNoPad(s) == s

\* the string branch of _os_customer_code_to_str
\* (n = int(s) is below 10000 when s, without its leading zeros, has fewer
\* digits than 10000; the test reads no integer wider than that)
PadDigitStr(s) ==
    IF IsDigitStr(s) /\ Len(StripZeros(s)) < Len(NatToStr(PadLimit))
    THEN Pad4(DigitsToInt(StripZeros(s)))
    ELSE s

\* _os_customer_code_to_str(val)
_os_customer_code_to_str(val) ==
    IF IsNumber(val) THEN NumberCode(val)
    ELSE Return(PyStr(PadDigitStr(Strip(Str(val)))))

\* _jeves_os_customer_code_raw(val)
_jeves_os_customer_code_raw(val) ==
    IF val = None \/ IsBlankStr(val) THEN Return(None)
    ELSE IF IsNumber(val) THEN NumberCode(val)
    ELSE LET s == Strip(Str(val))
         IN  IF s # <<>> THEN Return(PyStr(s)) ELSE Return(None)

-----------------------------------------------------------------------------
(* Cell values explored *)

Alphabet == {" ", "0", "1", "9", ".", "-", "A"}
DigitAlphabet == {"0", "1", "9"}

SeqsUpTo(S, n) == UNION {[1..m -> S] : m \in 0..n}

StrCells ==
    {PyStr(s) : s \in SeqsUpTo(Alphabet, MaxStrLen)}
        \cup {PyStr(s) : s \in SeqsUpTo(DigitAlphabet, MaxIntDigits)}

IntValues ==
    LET nat == {DigitsToInt(s) : s \in SeqsUpTo(DigitAlphabet, MaxIntDigits)}
    IN  nat \cup {-n : n \in nat}

\* the integers 2^53 - 1 .. 2^53 + 4, around the first one a double misses
AroundTwo53 ==
    {SubSeq(Two53, 1, 15) \o <<c>> : c \in {"1", "2", "3", "4", "5", "6"}}

IntCells ==
    {PyInt(n) : n \in IntValues}
        \cup {PyBigInt(neg, d) : neg \in BOOLEAN, d \in AroundTwo53}

FloatCells ==
    {PyFloat(neg, ip, frac) : neg \in BOOLEAN, ip \in 0..MaxFloatInt, frac \in 0..9}
        \cup {PyFloat(FALSE, DigitsToInt(s), 0) : s \in SeqsUpTo(DigitAlphabet, MaxIntDigits)}

Cells ==
    {None, NaN, Inf(FALSE), Inf(TRUE), PyBool(TRUE), PyBool(FALSE)}
        \cup StrCells \cup IntCells \cup FloatCells

-----------------------------------------------------------------------------
(* Normalizing one cell *)

\* the variables of the other pipelines, at rest
RangeIdle == jeves = Pending /\ ct = Pending /\ stibo = Pending /\ range = Pending
RecIdle == srcs = Pending /\ rec = Pending /\ books = Pending /\ invoice = Pending
DiffIdle ==
    /\ dfOld = Pending /\ dfNew = Pending /\ diffOut = Pending
    /\ outputDir = Pending /\ versions = Pending
RunIdle ==
    /\ inputs = Pending /\ hashFile = Pending /\ outputs = Pending
    /\ clock = Pending /\ run = Pending
OrchIdle == args = Pending /\ extraction = Pending /\ orch = Pending
ExtractIdle == sheet = Pending /\ workbook = Pending /\ extractOut = Pending

NormInit ==
    /\ cell \in Cells
    /\ normOut = Pending
    /\ RangeIdle /\ RecIdle /\ DiffIdle /\ RunIdle /\ OrchIdle /\ ExtractIdle

CleanProductCode ==
    /\ normOut = Pending
    /\ normOut' = [fn |-> "clean_product_code", res |-> clean_product_code(cell)]
    /\ UNCHANGED <<cell, rangeVars, recVars, diffVars, runVars, orchVars,
                   extractVars>>

OsCustomerCodeToStr ==
    /\ normOut = Pending
    /\ normOut' = [fn |-> "_os_customer_code_to_str", res |-> _os_customer_code_to_str(cell)]
    /\ UNCHANGED <<cell, rangeVars, recVars, diffVars, runVars, orchVars,
                   extractVars>>

JevesOsCustomerCodeRaw ==
    /\ normOut = Pending
    /\ normOut' = [fn |-> "_jeves_os_customer_code_raw",
                   res |-> _jeves_os_customer_code_raw(cell)]
    /\ UNCHANGED <<cell, rangeVars, recVars, diffVars, runVars, orchVars,
                   extractVars>>

NormNext ==
    \/ CleanProductCode
    \/ OsCustomerCodeToStr
    \/ JevesOsCustomerCodeRaw

SpecNorm == NormInit /\ [][NormNext]_vars

-----------------------------------------------------------------------------
(* Frames *)

\* a key column, by the set of its distinct cells
Column(cells) == [k |-> "column", cells |-> cells]
\* a frame, by the sequence of its rows
Frame(rows) == [k |-> "frame", rows |-> rows]

X == <<"X">>
Blank == <<>>

\* every order in which a frame, or the iteration of a Python set, may
\* hold the distinct values of S: unique() and set() promise none
Orders(S) ==
    {f \in [1..Cardinality(S) -> S] :
        \A i, j \in 1..Cardinality(S) : f[i] = f[j] => i = j}

\* codes compare as Python str; polars puts a null code first
KeyLess(a, b) ==
    IF a = None THEN b # None
    ELSE IF b = None THEN FALSE
    ELSE SeqLess(a.s, b.s)

-----------------------------------------------------------------------------
(* The product presence matrix: create_range_reconciliation *)

\* df.select(col).unique(), then clean_and_convert: the distinct cleaned codes
clean_and_convert(col) == {clean_product_code(c).val : c \in col.cells}

\* pl.concat([jeves_clean, ct_clean, stibo_clean]) without stibo_clean
AllProductsNoStibo(jeves_clean, ct_clean, stibo_clean) == jeves_clean \cup ct_clean

\* pl.concat([jeves_clean, ct_clean, stibo_clean]).unique("ProductCode")
AllProducts(jeves_clean, ct_clean, stibo_clean) ==
    jeves_clean \cup ct_clean \cup stibo_clean

\* pl.col("ProductCode").is_in(list), a polars Boolean ("true", "false" or
\* "null"): a null code stays null, unless the library matches nulls
IsIn(code, list, nullsEqual) ==
    IF code = None /\ ~nullsEqual THEN "null"
    ELSE IF code \in list THEN "true" ELSE "false"

\* pl.when(cond).then(a).otherwise(b): a null condition takes otherwise
When(cond, a, b) == IF cond = "true" THEN a ELSE b

\* pl.col(c) == False
EqFalse(x) == IF x = "null" THEN "null" ELSE IF x = "false" THEN "true" ELSE "false"

RECURSIVE ConcatStr(_, _)
\* pl.concat_str(parts, separator=sep)
ConcatStr(parts, sep) ==
    IF parts = <<>> THEN <<>>
    ELSE IF Len(parts) = 1 THEN parts[1]
    ELSE parts[1] \o sep \o ConcatStr(Tail(parts), sep)

CommaSpace == <<",", " ">>
NameCT == <<"C", "T">>
NameJEEVES == <<"J", "E", "E", "V", "E", "S">>
NameSTIBO == <<"S", "T", "I", "B", "O">>

\* the Absent_from column, from the three *_present columns
AbsentFrom(ct_present, jeeves_present, stibo_present) ==
    LET joined == ConcatStr(<<When(EqFalse(ct_present), NameCT, Blank),
                              When(EqFalse(jeeves_present), NameJEEVES, Blank),
                              When(EqFalse(stibo_present), NameSTIBO, Blank)>>,
                            CommaSpace)
        stripped == RStrip(LStrip(joined, {",", " "}), {",", " "})
    IN  IF stripped = Blank THEN <<"-">> ELSE stripped

\* one row of the reconciliation frame
RangeRow(code, ct_list, jeves_list, stibo_list, nullsEqual) ==
    LET ct_present == IsIn(code, ct_list, nullsEqual)
        jeeves_present == IsIn(code, jeves_list, nullsEqual)
        stibo_present == IsIn(code, stibo_list, nullsEqual)
    IN  [ProductCode |-> code,
         CT |-> When(ct_present, X, Blank),
         JEEVES |-> When(jeeves_present, X, Blank),
         STIBO |-> When(stibo_present, X, Blank),
         Absent_from |-> AbsentFrom(ct_present, jeeves_present, stibo_present)]

RECURSIVE InsertRow(_, _)
InsertRow(row, sorted) ==
    IF sorted = <<>> THEN <<row>>
    ELSE IF KeyLess(row.ProductCode, Head(sorted).ProductCode) THEN <<row>> \o sorted
    ELSE <<Head(sorted)>> \o InsertRow(row, Tail(sorted))

RECURSIVE SortByProductCode(_)
\* .sort("ProductCode")
SortByProductCode(rows) ==
    IF rows = <<>> THEN <<>>
    ELSE InsertRow(Head(rows), SortByProductCode(Tail(rows)))

\* create_range_reconciliation, from its three cleaned code lists on: order
\* is the row order unique() leaves in all_products
create_range_reconciliation(jeves_list, ct_list, stibo_list, order, nullsEqual) ==
    Frame(SortByProductCode(
        [i \in 1..Len(order) |->
            RangeRow(order[i], ct_list, jeves_list, stibo_list, nullsEqual)]))

(* Product frames explored: a key column holds cells of one type *)

ProductCodes == {9, 10}

IntPool == {PyInt(n) : n \in ProductCodes} \cup {None}
FloatPool == {PyFloat(FALSE, n, 0) : n \in ProductCodes} \cup {None}
StrPool ==
    {PyStr(IntToStr(n)) : n \in ProductCodes}
        \cup {PyStr(<<" ">>), None}

ColumnsOver(pool) ==
    {Column(c) : c \in {c \in SUBSET pool : Cardinality(c) <= MaxProductCells}}

ProductColumns == ColumnsOver(IntPool) \cup ColumnsOver(FloatPool) \cup ColumnsOver(StrPool)

NormIdle == cell = Pending /\ normOut = Pending

RangeInit ==
    /\ jeves \in ProductColumns
    /\ ct \in ProductColumns
    /\ stibo \in ProductColumns
    /\ range = Pending
    /\ NormIdle /\ RecIdle /\ DiffIdle /\ RunIdle /\ OrchIdle /\ ExtractIdle

CreateRangeReconciliation ==
    /\ jeves # Pending
    /\ range = Pending
    /\ \E jeves_list \in {clean_and_convert(jeves)} :
        \E ct_list \in {clean_and_convert(ct)} :
            \E stibo_list \in {clean_and_convert(stibo)} :
                \E nullsEqual \in BOOLEAN :
                    \E order \in Orders(AllProducts(jeves_list, ct_list, stibo_list)) :
                        range' = create_range_reconciliation(jeves_list, ct_list, stibo_list,
                                                             order, nullsEqual)
    /\ UNCHANGED <<jeves, ct, stibo, normVars, recVars, diffVars, runVars, orchVars,
                   extractVars>>

-----------------------------------------------------------------------------
(* The six-source presence matrix: build_reconciliation *)

SourceNames == {"stibo_v", "stibo_c", "ct_v", "ct_c", "jeves_v", "jeves_c"}

\* list(set.union(*sets.values())): the codes in the order of the set
UnsortedCodes(order) == order

RECURSIVE InsertCode(_, _)
InsertCode(c, sorted) ==
    IF sorted = <<>> THEN <<c>>
    ELSE IF SeqLess(c, Head(sorted)) THEN <<c>> \o sorted
    ELSE <<Head(sorted)>> \o InsertCode(c, Tail(sorted))

RECURSIVE SortedFrom(_)
SortedFrom(order) ==
    IF order = <<>> THEN <<>>
    ELSE InsertCode(Head(order), SortedFrom(Tail(order)))

\* sorted(...) of the codes, iterated in the order the set gives
Sorted(order) == SortedFrom(order)

\* set.union(*sets.values())
UnionOfSets(sets) == UNION {sets[n] : n \in SourceNames}

\* "X" if c in sets[name] else ""
Flag(c, set) == IF c \in set THEN X ELSE Blank

\* build_reconciliation(...): sets maps each source to set(df[key].to_list());
\* order is the iteration order of the union
build_reconciliation(sets, order) ==
    LET all_codes == Sorted(order)
    IN  Frame([i \in 1..Len(all_codes) |->
            [Code |-> all_codes[i],
             STIBO_Vendor |-> Flag(all_codes[i], sets["stibo_v"]),
             STIBO_Customer |-> Flag(all_codes[i], sets["stibo_c"]),
             CT_Vendor |-> Flag(all_codes[i], sets["ct_v"]),
             CT_Customer |-> Flag(all_codes[i], sets["ct_c"]),
             JEEVES_Vendor |-> Flag(all_codes[i], sets["jeves_v"]),
             JEEVES_Customer |-> Flag(all_codes[i], sets["jeves_c"])]])

(* The normalized frames explored *)

SourceKeys == {IntToStr(9), IntToStr(10), Pad4(5)}

KeySets == {S \in SUBSET SourceKeys : Cardinality(S) <= MaxSourceKeys}

RecInit ==
    /\ srcs \in {[k |-> "frames", sets |-> f] : f \in [SourceNames -> KeySets]}
    /\ rec = Pending
    /\ books = Pending /\ invoice = Pending
    /\ NormIdle /\ RangeIdle /\ DiffIdle /\ RunIdle /\ OrchIdle /\ ExtractIdle

BuildReconciliation ==
    /\ srcs # Pending
    /\ rec = Pending
    /\ \E order \in Orders(UnionOfSets(srcs.sets)) :
            rec' = build_reconciliation(srcs.sets, order)
    /\ UNCHANGED <<srcs, books, invoice, normVars, rangeVars, diffVars, runVars, orchVars,
                   extractVars>>

MatrixInit == RangeInit \/ RecInit

MatrixNext ==
    \/ CreateRangeReconciliation
    \/ BuildReconciliation

SpecMatrix == MatrixInit /\ [][MatrixNext]_vars

-----------------------------------------------------------------------------
(* Comparing two versions: _diff_codes *)

\* _load_sheet_for_version found no file, or an empty sheet
NoFrame == None

\* .cast(pl.Utf8) of a cell that is not null
CastUtf8(v) == Str(v)

\* set(df[key_col].drop_nulls().cast(pl.Utf8).to_list()), or set()
CodeSet(df) ==
    IF df = NoFrame \/ df.cells = {} THEN {}
    ELSE {CastUtf8(v) : v \in df.cells \ {None}}

\* old_set - new_set
AddedFromOld(old_set, new_set) == old_set \ new_set

\* new_set - old_set
Added(old_set, new_set) == new_set \ old_set

\* old_set, nothing taken away
RemovedAll(old_set, new_set) == old_set

\* old_set - new_set
Removed(old_set, new_set) == old_set \ new_set

\* len(new_set)
UnchangedOfNew(old_set, new_set) == Cardinality(new_set)

\* len(old_set & new_set)
Unchanged(old_set, new_set) == Cardinality(old_set \cap new_set)

\* _diff_codes(df_old, df_new, key_col); the orders are those in which
\* sorted() iterates the two difference sets
_diff_codes(df_old, df_new, orderAdded, orderRemoved) ==
    [added |-> Sorted(orderAdded),
     removed |-> Sorted(orderRemoved),
     unchanged |-> Unchanged(CodeSet(df_old), CodeSet(df_new))]

(* The versions explored *)

DiffCodes == {1, 2, 3, 4, 10}

DiffFrames ==
    {NoFrame}
        \cup {Column(c) : c \in {c \in SUBSET ({PyInt(n) : n \in DiffCodes} \cup {None}) :
                                    Cardinality(c) <= MaxDiffCells}}
        \cup {Column(c) : c \in {c \in SUBSET ({PyStr(IntToStr(n)) : n \in DiffCodes} \cup {None}) :
                                    Cardinality(c) <= MaxDiffCells}}

DiffInit ==
    /\ dfOld \in DiffFrames
    /\ dfNew \in DiffFrames
    /\ diffOut = Pending
    /\ outputDir = Pending /\ versions = Pending
    /\ NormIdle /\ RangeIdle /\ RecIdle /\ RunIdle /\ OrchIdle /\ ExtractIdle

DiffCodesCall ==
    /\ diffOut = Pending
    /\ \E orderAdded \in Orders(Added(CodeSet(dfOld), CodeSet(dfNew))) :
        \E orderRemoved \in Orders(Removed(CodeSet(dfOld), CodeSet(dfNew))) :
            diffOut' = _diff_codes(dfOld, dfNew, orderAdded, orderRemoved)
    /\ UNCHANGED <<dfOld, dfNew, outputDir, versions, normVars, rangeVars, recVars, runVars, orchVars,
                   extractVars>>

DiffNext == DiffCodesCall

SpecDiff == DiffInit /\ [][DiffNext]_vars

-----------------------------------------------------------------------------
(* The history view: show_history, from the two loaded sheets on *)

\* a loaded sheet that has rows but no column named key_col
NoKeyColumn == [k |-> "nokey"]

\* key_col in (df.columns if df is not None else [])
HasKeyColumn(df) == df # NoFrame /\ df # NoKeyColumn

\* _load_product_for_version / _load_sheet_for_version: None, or a frame
\* with at least one row
LoadedFrames ==
    {NoFrame, NoKeyColumn} \cup {df \in DiffFrames \ {NoFrame} : df.cells # {}}

\* st.warning(...) and return
Warning(text) == [kind |-> "warning", text |-> text]

HistoryInit ==
    /\ dfOld \in LoadedFrames
    /\ dfNew \in LoadedFrames
    /\ diffOut = Pending
    /\ outputDir = Pending /\ versions = Pending
    /\ NormIdle /\ RangeIdle /\ RecIdle /\ RunIdle /\ OrchIdle /\ ExtractIdle

\* show_history after the two loads: the two guards, then _diff_codes, where
\* df[key_col] raises on a frame with rows that lacks the column
ShowHistory ==
    /\ diffOut = Pending
    /\ \/ /\ dfOld = NoFrame /\ dfNew = NoFrame
          /\ diffOut' = Warning("No data")
       \/ /\ ~(dfOld = NoFrame /\ dfNew = NoFrame)
          /\ ~HasKeyColumn(dfOld) /\ ~HasKeyColumn(dfNew)
          /\ diffOut' = Warning("Column not found")
       \/ /\ HasKeyColumn(dfOld) \/ HasKeyColumn(dfNew)
          /\ dfOld = NoKeyColumn \/ dfNew = NoKeyColumn
          /\ diffOut' = Raise("ColumnNotFoundError")
       \/ /\ HasKeyColumn(dfOld) \/ HasKeyColumn(dfNew)
          /\ dfOld # NoKeyColumn /\ dfNew # NoKeyColumn
          /\ \E orderAdded \in Orders(Added(CodeSet(dfOld), CodeSet(dfNew))) :
              \E orderRemoved \in Orders(Removed(CodeSet(dfOld), CodeSet(dfNew))) :
                  diffOut' = Return(_diff_codes(dfOld, dfNew, orderAdded, orderRemoved))
    /\ UNCHANGED <<dfOld, dfNew, outputDir, versions, normVars, rangeVars, recVars, runVars, orchVars,
                   extractVars>>

HistoryNext == ShowHistory

SpecHistory == HistoryInit /\ [][HistoryNext]_vars

-----------------------------------------------------------------------------
(* The versions the dashboard offers: list_output_versions *)

\* OUTPUT_DIR does not exist
NoOutputDir == [k |-> "nodir"]
\* OUTPUT_DIR with the names of its subdirectories
OutputDir(names) == [k |-> "dir", names |-> names]

\* sorted(..., reverse=True) of an ascending list of distinct names
Reverse(seq) == [i \in 1..Len(seq) |-> seq[Len(seq) + 1 - i]]

\* list_output_versions(): order is the order in which iterdir() gives
\* the subdirectories
list_output_versions(dir, order) ==
    IF dir = NoOutputDir THEN <<>> ELSE Reverse(Sorted(order))

(* The output directories explored: version folders named DDMM *)

VersionDays == {<<"0", "1">>, <<"0", "2">>, <<"2", "3">>, <<"2", "8">>}
VersionMonths == {<<"0", "1">>, <<"0", "2">>, <<"0", "3">>, <<"1", "2">>}
VersionNames == {d \o mm : d \in VersionDays, mm \in VersionMonths}

OutputDirs ==
    {NoOutputDir}
        \cup {OutputDir(S) : S \in {S \in SUBSET VersionNames : Cardinality(S) <= MaxVersions}}

VersionsInit ==
    /\ outputDir \in OutputDirs
    /\ versions = Pending
    /\ dfOld = Pending /\ dfNew = Pending /\ diffOut = Pending
    /\ NormIdle /\ RangeIdle /\ RecIdle /\ RunIdle /\ OrchIdle /\ ExtractIdle

ListOutputVersions ==
    /\ versions = Pending
    /\ \E order \in (IF outputDir = NoOutputDir THEN {<<>>} ELSE Orders(outputDir.names)) :
            versions' = Return(list_output_versions(outputDir, order))
    /\ UNCHANGED <<dfOld, dfNew, diffOut, outputDir, normVars, rangeVars, recVars, runVars,
                   orchVars, extractVars>>

VersionsNext == ListOutputVersions

SpecVersions == VersionsInit /\ [][VersionsNext]_vars

-----------------------------------------------------------------------------
(* The change-detection cache of reconcile_products *)

\* a path with no file
Missing == [k |-> "missing"]
Absent == [k |-> "absent"]

\* input_files
InputFiles ==
    <<"JEEVES/RECONC Product Data 2026-02-04.xlsx",
      "CT/P1 Data Cleansing - Product Ekofisk.xlsb",
      "STIBO/extract_stibo_all_products.xlsx">>

InputFileSet == {InputFiles[i] : i \in 1..Len(InputFiles)}

\* hashlib.md5(data).hexdigest(), taken as collision free
Md5(data) == [md5 |-> data]

\* get_file_hash of a file that is there, its content left out
get_file_hash_blind(files, file_path) ==
    IF files[file_path] = Missing THEN None ELSE Md5(<<>>)

\* get_file_hash(file_path), given the files on disk
get_file_hash(files, file_path) ==
    IF files[file_path] = Missing THEN None ELSE Md5(files[file_path])

RECURSIVE HashEntriesSkipping(_, _)
\* the loop of get_input_files_hash, were a missing file passed over
HashEntriesSkipping(files, paths) ==
    IF paths = <<>> THEN [ok |-> TRUE, hashes |-> <<>>]
    ELSE LET file_hash == get_file_hash(files, Head(paths))
             rest == HashEntriesSkipping(files, Tail(paths))
         IN  IF file_hash = None THEN rest
             ELSE [ok |-> TRUE,
                   hashes |-> <<<<Head(paths), ":", file_hash>>>> \o rest.hashes]

RECURSIVE HashEntries(_, _)
\* the loop of get_input_files_hash: the list hashes, or not ok (return
\* None) at the first missing file
HashEntries(files, paths) ==
    IF paths = <<>> THEN [ok |-> TRUE, hashes |-> <<>>]
    ELSE LET file_hash == get_file_hash(files, Head(paths))
             rest == HashEntries(files, Tail(paths))
         IN  IF file_hash = None \/ ~rest.ok THEN [ok |-> FALSE, hashes |-> <<>>]
             ELSE [ok |-> TRUE,
                   hashes |-> <<<<Head(paths), ":", file_hash>>>> \o rest.hashes]

\* get_input_files_hash()
get_input_files_hash(files) ==
    IF HashEntries(files, InputFiles).ok
    THEN Md5(ConcatStr(HashEntries(files, InputFiles).hashes, <<"|">>))
    ELSE None

(* The record file .reconciliation_hash.json *)

\* a file json.load cannot parse
Unparseable == [k |-> "unparseable"]
\* a JSON array of n elements
JList(n) == [k |-> "list", len |-> n]
\* a key that a mapping does not hold
NoMember == [k |-> "nomember"]
\* a JSON object, by what it holds under "input_hash" and "output_file"
JDict(input_hash, output_file) ==
    [k |-> "dict", input_hash |-> input_hash, output_file |-> output_file]

\* d.get(key)
Get(d, key) == IF d[key] = NoMember THEN None ELSE d[key]

\* the truth value Python gives v in a condition
Truthy(v) ==
    /\ v # None
    /\ v.k = "list" => v.len > 0
    /\ v.k = "dict" => (v.input_hash # NoMember \/ v.output_file # NoMember)

\* load_hash_info()
load_hash_info(file) ==
    IF file = Absent THEN None
    ELSE IF file = Unparseable THEN None
    ELSE file

\* the record save_hash_info would write, with the path left out
HashInfoNoPath(input_hash, output_file) ==
    JDict(input_hash, None)

\* the record save_hash_info(input_hash, output_file) writes
HashInfo(input_hash, output_file) ==
    JDict(input_hash, output_file)

(* Output artifacts *)

\* Path(f"Range_Reconciliation_{timestamp}.xlsx")
Timestamped(t) == [file |-> "Range_Reconciliation_{timestamp}.xlsx", timestamp |-> t]
\* Path("Range_Reconciliation.xlsx")
DefaultRange == [file |-> "Range_Reconciliation.xlsx"]

\* Path(".").glob("Range_Reconciliation_*.xlsx")
MatchesGlob(path) == path.file = "Range_Reconciliation_{timestamp}.xlsx"

\* the matching file of earliest mtime, if any
find_oldest_output_files(files) ==
    LET range_files == SelectSeq(files, MatchesGlob)
    IN  IF range_files # <<>> THEN [range |-> range_files[1]]
        ELSE [range |-> NoMember]

\* find_existing_output_files(): the matching file of latest mtime, if any
find_existing_output_files(files) ==
    LET range_files == SelectSeq(files, MatchesGlob)
    IN  IF range_files # <<>> THEN [range |-> range_files[Len(range_files)]]
        ELSE [range |-> NoMember]

\* the files after path is written: path has the latest mtime
WriteFile(files, path) ==
    LET Other(p) == p # path
    IN  SelectSeq(files, Other) \o <<path>>

-----------------------------------------------------------------------------
(* A product reconciliation run: reconcile_products.main *)

\* contents an input file may have
Contents == {[k |-> "bytes", data |-> "a"], [k |-> "bytes", data |-> "b"]}

\* current_input_hash and previous_hash_info and
\* previous_hash_info.get("input_hash") == current_input_hash
OverwriteCondition(current_input_hash, previous_hash_info) ==
    IF current_input_hash # None /\ Truthy(previous_hash_info)
    THEN IF previous_hash_info.k # "dict" THEN Raise("AttributeError")
         ELSE Return(Get(previous_hash_info, "input_hash") = current_input_hash)
    ELSE Return(FALSE)

\* existing_files.get("range", Path("Range_Reconciliation.xlsx"))
ExistingRangeFile(existing_files) ==
    IF existing_files["range"] # NoMember THEN existing_files["range"] ELSE DefaultRange

\* no run under way
NoRun ==
    [pc |-> "idle", current_input_hash |-> None, previous_hash_info |-> None,
     output_file_range |-> None, branch |-> "none", error |-> "none"]

\* the record files a first run may find
FirstRecords ==
    {Absent, Unparseable, None, JList(0), JList(1), JDict(NoMember, NoMember),
     JDict(NoMember, DefaultRange)}

RunInit ==
    /\ inputs \in [InputFileSet -> Contents \cup {Missing}]
    /\ hashFile \in FirstRecords
    /\ outputs = <<>>
    /\ clock = 1
    /\ run = NoRun
    /\ NormIdle /\ RangeIdle /\ RecIdle /\ DiffIdle /\ OrchIdle /\ ExtractIdle

\* main, lines 408-424: fingerprint, previous record, name of the output
Decide ==
    /\ run.pc = "idle"
    /\ \E current_input_hash \in {get_input_files_hash(inputs)} :
        \E previous_hash_info \in {load_hash_info(hashFile)} :
            \E overwrite \in {OverwriteCondition(current_input_hash, previous_hash_info)} :
                run' = IF overwrite.kind = "raise"
                       THEN [NoRun EXCEPT !.pc = "failed",
                                          !.current_input_hash = current_input_hash,
                                          !.previous_hash_info = previous_hash_info,
                                          !.error = overwrite.exc]
                       ELSE [pc |-> "decided",
                             current_input_hash |-> current_input_hash,
                             previous_hash_info |-> previous_hash_info,
                             output_file_range |->
                                IF overwrite.val
                                THEN ExistingRangeFile(find_existing_output_files(outputs))
                                ELSE Timestamped(clock),
                             branch |-> IF overwrite.val THEN "overwrite" ELSE "new",
                             error |-> "none"]
    /\ UNCHANGED <<inputs, hashFile, outputs, clock, normVars, rangeVars, recVars, diffVars,
                   orchVars, extractVars>>

\* main, lines 427-446: load the three files, build the matrix, write it.
\* A missing file makes its loader raise; a file that is there may still
\* fail to load, and write_excel may fail
Produce ==
    /\ run.pc = "decided"
    /\ \/ /\ \E f \in InputFileSet : inputs[f] = Missing
          /\ run' = [run EXCEPT !.pc = "failed", !.error = "FileNotFoundError"]
          /\ UNCHANGED outputs
       \/ /\ \A f \in InputFileSet : inputs[f] # Missing
          /\ run' = [run EXCEPT !.pc = "failed", !.error = "Exception"]
          /\ UNCHANGED outputs
       \/ /\ \A f \in InputFileSet : inputs[f] # Missing
          /\ outputs' = WriteFile(outputs, run.output_file_range)
          /\ run' = [run EXCEPT !.pc = "written"]
    /\ UNCHANGED <<inputs, hashFile, clock, normVars, rangeVars, recVars, diffVars,
                   orchVars, extractVars>>

\* main, lines 449-452: save the fingerprint with the path written
SaveHash ==
    /\ run.pc = "written"
    /\ hashFile' = IF run.current_input_hash # None
                   THEN HashInfo(run.current_input_hash, run.output_file_range)
                   ELSE hashFile
    /\ run' = [run EXCEPT !.pc = "done"]
    /\ UNCHANGED <<inputs, outputs, clock, normVars, rangeVars, recVars, diffVars,
                   orchVars, extractVars>>

\* the process has ended; the script may be started again
NextRun ==
    /\ run.pc \in {"done", "failed"}
    /\ run' = NoRun
    /\ UNCHANGED <<inputs, hashFile, outputs, clock, normVars, rangeVars, recVars, diffVars,
                   orchVars, extractVars>>

\* between two runs an input file is replaced, deleted or delivered
EditInput ==
    /\ run.pc = "idle"
    /\ \E f \in InputFileSet : \E c \in (Contents \cup {Missing}) \ {inputs[f]} :
            inputs' = [inputs EXCEPT ![f] = c]
    /\ UNCHANGED <<hashFile, outputs, clock, run, normVars, rangeVars, recVars, diffVars,
                   orchVars, extractVars>>

\* between two runs the second changes
Tick ==
    /\ run.pc = "idle"
    /\ clock < MaxClock
    /\ clock' = clock + 1
    /\ UNCHANGED <<inputs, hashFile, outputs, run, normVars, rangeVars, recVars, diffVars,
                   orchVars, extractVars>>

RunNext ==
    \/ Decide
    \/ Produce
    \/ SaveHash
    \/ NextRun
    \/ EditInput
    \/ Tick

SpecRun == RunInit /\ [][RunNext]_vars

-----------------------------------------------------------------------------
(* The orchestrator: run_reconciliation.main *)

MARKETS == <<"Ekofisk", "Fresh", "Classic">>

MarketSet == {MARKETS[i] : i \in 1..Len(MARKETS)}

\* args.market.capitalize()
Capitalize(market) ==
    CASE market = "ekofisk" -> "Ekofisk"
      [] market = "fresh" -> "Fresh"
      [] market = "classic" -> "Classic"

\* markets_to_run
MarketsToRun(market) == IF market = "all" THEN MARKETS ELSE <<Capitalize(market)>>

\* what run_invoice_ordering_reconciliation meets for a market: all its
\* sources are read, a source file is not found (FileNotFoundError), or a
\* sheet or column is not found in a file (ValueError)
Extractions == {"ok", "SourceNotFound", "LayoutMismatch"}

\* output_dir / f"Reconciliation_{market}.xlsx"
OutPath(market) == [file |-> "Reconciliation_{market}.xlsx", market |-> market]

\* run_invoice_ordering_reconciliation(market, ...)
run_invoice_ordering_reconciliation(market, found) ==
    CASE found = "ok" -> Return(OutPath(market))
      [] found = "SourceNotFound" -> Raise("FileNotFoundError")
      [] found = "LayoutMismatch" -> Raise("ValueError")

\* reconcile_products.main(date_folder=..., output_dir=..., write_range_file=False):
\* main() takes no argument
reconcile_products_main(date_folder) == Raise("TypeError")

\* f"{unit}: {e}"
Skipped(unit, e) == [unit |-> unit, reason |-> e]

OrchInit ==
    /\ args \in [market : {"ekofisk", "fresh", "classic", "all"},
                 domains : {"invoice_ordering", "product", "all"}]
    /\ extraction \in [MarketSet -> Extractions]
    /\ orch = [pc |-> "product", todo |-> <<>>, generated_files |-> <<>>,
               skipped |-> <<>>, product_df |-> None, reported |-> FALSE,
               error |-> "none"]
    /\ NormIdle /\ RangeIdle /\ RecIdle /\ DiffIdle /\ RunIdle /\ ExtractIdle

\* main, lines 65-97: the product domain, then the list of markets
ProductDomain ==
    /\ orch.pc = "product"
    /\ orch' = [orch EXCEPT
                    !.pc = "markets",
                    !.todo = MarketsToRun(args.market),
                    !.skipped =
                        IF args.domains \in {"product", "all"}
                           /\ reconcile_products_main("date_folder").kind = "raise"
                        THEN <<Skipped("Product", reconcile_products_main("date_folder").exc)>>
                        ELSE <<>>]
    /\ UNCHANGED <<args, extraction, normVars, rangeVars, recVars, diffVars, runVars,
                   extractVars>>

\* main, lines 98-106: one turn of the loop over the markets; only
\* FileNotFoundError is caught
RunMarket ==
    /\ orch.pc = "markets"
    /\ orch.todo # <<>>
    /\ \E market \in {Head(orch.todo)} :
        \E out \in {run_invoice_ordering_reconciliation(market, extraction[market])} :
            orch' = IF out.kind = "return"
                    THEN [orch EXCEPT !.todo = Tail(orch.todo),
                                      !.generated_files = Append(orch.generated_files, out.val)]
                    ELSE IF out.exc = "FileNotFoundError"
                    THEN [orch EXCEPT !.todo = Tail(orch.todo),
                                      !.skipped = Append(orch.skipped,
                                                         Skipped(market, out.exc))]
                    ELSE [orch EXCEPT !.pc = "crashed", !.error = out.exc]
    /\ UNCHANGED <<args, extraction, normVars, rangeVars, recVars, diffVars, runVars,
                   extractVars>>

\* main, lines 109-124: the summary of generated and skipped
Report ==
    /\ orch.pc = "markets"
    /\ orch.todo = <<>>
    /\ orch' = [orch EXCEPT !.pc = "done", !.reported = TRUE]
    /\ UNCHANGED <<args, extraction, normVars, rangeVars, recVars, diffVars, runVars,
                   extractVars>>

OrchNext ==
    \/ ProductDomain
    \/ RunMarket
    \/ Report

SpecOrch == OrchInit /\ [][OrchNext]_vars

-----------------------------------------------------------------------------
(* The extractors that find their key column by its header *)

STIBO_OS_VENDORS_COL == PyStr(<<"S", "U", "V", "C", " ", "O", "r", "d", "e", "r", "i", "n", "g", "/", "S", "h", "i", "p", "p", "i", "n", "g">>)
STIBO_CUSTOMER_INVOICE_COL == PyStr(<<"I", "n", "v", "o", "i", "c", "e", " ", "C", "u", "s", "t", "o", "m", "e", "r", " ", "C", "o", "d", "e">>)
JEEVES_VENDOR_INVOICE_COL == PyStr(<<"S", "U", "V", "C", " ", "-", "I", "n", "v", "o", "i", "c", "e">>)

NotSpace(c) == c # " "

\* str(h).strip().lower().replace(" ", "")
NormHeader(h) == SelectSeq(LowerStr(Strip(Str(h))), NotSpace)

\* 1-based index of the first header that is not None and whose normalized
\* text is one of aliases, 0 if there is none
FirstHeader(headers, aliases) ==
    IF \E i \in 1..Len(headers) : headers[i] # None /\ NormHeader(headers[i]) \in aliases
    THEN CHOOSE i \in 1..Len(headers) :
            /\ headers[i] # None /\ NormHeader(headers[i]) \in aliases
            /\ \A j \in 1..(i - 1) : ~(headers[j] # None /\ NormHeader(headers[j]) \in aliases)
    ELSE 0

\* _stibo_header_col(ws, header_aliases)
_stibo_header_col(headers, header_aliases) ==
    IF FirstHeader(headers, header_aliases) # 0
    THEN FirstHeader(headers, header_aliases)
    ELSE 1

\* v is None or (isinstance(v, str) and not v.strip())
IsBlankCell(v) == v = None \/ IsBlankStr(v)

\* the cells of a column that the loop over the rows keeps, as they are
NonBlank(cells) == SelectSeq(cells, LAMBDA v : ~IsBlankCell(v))

\* the same with values.append(str(v).strip())
NonBlankStripped(cells) ==
    [i \in 1..Len(NonBlank(cells)) |-> PyStr(Strip(Str(NonBlank(cells)[i])))]

\* [h for h in headers if h]
NamedHeaders(headers) ==
    SelectSeq(headers, LAMBDA h : h # None /\ ~(h.k = "str" /\ h.s = <<>>))

\* raise ValueError(f"Column '{column}' not found ... Available: {available}")
ColumnNotFound(column, available) ==
    Raise([type |-> "ValueError", column |-> column, available |-> available])

\* load_stibo_vendor_invoice_2302(path), ws being the active sheet
load_stibo_vendor_invoice_2302(ws) ==
    Return(NonBlank(ws.cells[_stibo_header_col(ws.headers,
                                               {<<"s", "u", "v", "c", "i", "n", "v", "o", "i", "c", "e">>, <<"s", "u", "v", "c", "-", "i", "n", "v", "o", "i", "c", "e">>})]))

\* load_stibo_os_vendors(path)
load_stibo_os_vendors(ws) ==
    LET col_idx == FirstHeader(ws.headers, {<<"s", "u", "v", "c", "o", "r", "d", "e", "r", "i", "n", "g", "/", "s", "h", "i", "p", "p", "i", "n", "g">>})
    IN  IF col_idx = 0 THEN ColumnNotFound(STIBO_OS_VENDORS_COL, NamedHeaders(ws.headers))
        ELSE Return(NonBlank(ws.cells[col_idx]))

\* load_stibo_customer_invoice(path)
load_stibo_customer_invoice(ws) ==
    LET col_idx == FirstHeader(ws.headers, {<<"i", "n", "v", "o", "i", "c", "e", "c", "u", "s", "t", "o", "m", "e", "r", "c", "o", "d", "e">>})
    IN  IF col_idx = 0 THEN ColumnNotFound(STIBO_CUSTOMER_INVOICE_COL, NamedHeaders(ws.headers))
        ELSE Return(NonBlankStripped(ws.cells[col_idx]))

\* load_jeves_vendor_invoice(path)
load_jeves_vendor_invoice(ws) ==
    LET col_idx == FirstHeader(ws.headers, {<<"s", "u", "v", "c", "-", "i", "n", "v", "o", "i", "c", "e">>})
    IN  IF col_idx = 0 THEN ColumnNotFound(JEEVES_VENDOR_INVOICE_COL, ws.headers)
        ELSE Return(NonBlank(ws.cells[col_idx]))

(* The worksheets explored *)

\* header cells
HeaderPool ==
    {None,
     PyStr(<<"N", "a", "m", "e">>),
     PyStr(<<"S", "U", "V", "C", " ", "I", "n", "v", "o", "i", "c", "e">>),
     PyStr(<<" ", "s", "u", "v", "c", " ", "-", " ", "i", "n", "v", "o", "i", "c", "e", " ">>),
     STIBO_OS_VENDORS_COL,
     STIBO_CUSTOMER_INVOICE_COL,
     PyStr(<<"S", "U", "V", "C", " ", "-", "I", "n", "v", "o", "i", "c", "e">>)}

\* the cells under the header of column c: a code, an empty cell, a blank
\* cell and a code between spaces
DataColumn(c) ==
    <<PyStr(NatToStr(c)), None, PyStr(<<" ">>), PyStr(<<" ">> \o NatToStr(10 + c) \o <<" ">>)>>

Worksheets ==
    {[headers |-> h, cells |-> [c \in 1..Len(h) |-> DataColumn(c)]] :
        h \in UNION {[1..n -> HeaderPool] : n \in 1..MaxHeaders}}

ExtractInit ==
    /\ sheet \in Worksheets
    /\ workbook = Pending
    /\ extractOut = Pending
    /\ NormIdle /\ RangeIdle /\ RecIdle /\ DiffIdle /\ RunIdle /\ OrchIdle

LoadStiboVendorInvoice ==
    /\ extractOut = Pending
    /\ extractOut' = [fn |-> "load_stibo_vendor_invoice_2302",
                      res |-> load_stibo_vendor_invoice_2302(sheet)]
    /\ UNCHANGED <<sheet, workbook, normVars, rangeVars, recVars, diffVars, runVars,
                   orchVars>>

LoadStiboOsVendors ==
    /\ extractOut = Pending
    /\ extractOut' = [fn |-> "load_stibo_os_vendors", res |-> load_stibo_os_vendors(sheet)]
    /\ UNCHANGED <<sheet, workbook, normVars, rangeVars, recVars, diffVars, runVars,
                   orchVars>>

LoadStiboCustomerInvoice ==
    /\ extractOut = Pending
    /\ extractOut' = [fn |-> "load_stibo_customer_invoice",
                      res |-> load_stibo_customer_invoice(sheet)]
    /\ UNCHANGED <<sheet, workbook, normVars, rangeVars, recVars, diffVars, runVars,
                   orchVars>>

LoadJevesVendorInvoice ==
    /\ extractOut = Pending
    /\ extractOut' = [fn |-> "load_jeves_vendor_invoice",
                      res |-> load_jeves_vendor_invoice(sheet)]
    /\ UNCHANGED <<sheet, workbook, normVars, rangeVars, recVars, diffVars, runVars,
                   orchVars>>

ExtractNext ==
    \/ LoadStiboVendorInvoice
    \/ LoadStiboOsVendors
    \/ LoadStiboCustomerInvoice
    \/ LoadJevesVendorInvoice

SpecExtract == ExtractInit /\ [][ExtractNext]_vars

-----------------------------------------------------------------------------
(* The extractors that find their sheet by its name.  A workbook is the list
   of its sheet names and, for each sheet, the cells of the key column from
   the data start row to ws.max_row. *)

CT_SHEET_INVOICE == "Invoice"
CT_SHEET_ORDERING == "OrderingShipping"
JEEVES_VENDOR_OS_SHEETS ==
    <<"ORDERSHIPPING", "ODERSHIPPING", "OrderingShipping", "ORDERINGSHIPPING">>
JEEVES_CUSTOMER_INVOICE_SHEET == "INVOICECUSTOMER"
JEEVES_CUSTOMER_OS_SHEETS == <<"ORDERSHIPPING", "OrderShipping", "ORDERINGSHIPPING">>

\* set(wb.sheetnames)
SheetNames(wb) == {wb.sheetnames[i] : i \in 1..Len(wb.sheetnames)}

\* the key column of wb[name]
KeyColumn(wb, name) ==
    wb.cells[CHOOSE i \in 1..Len(wb.sheetnames) : wb.sheetnames[i] = name]

\* raise ValueError(f"Sheet ... Tried: {tried}. Available: {wb.sheetnames}")
SheetNotFound(tried, available) ==
    Raise([type |-> "ValueError", tried |-> tried, available |-> available])

RECURSIVE UntilFirstBlank(_)
\* the loop of load_ct_column: break at the first blank cell, append
\* str(v).strip() before it
UntilFirstBlank(cells) ==
    IF cells = <<>> \/ IsBlankCell(Head(cells)) THEN <<>>
    ELSE <<PyStr(Strip(Str(Head(cells))))>> \o UntilFirstBlank(Tail(cells))

\* load_ct_column(path, sheet_name, col, start_row)
load_ct_column(wb, sheet_name) ==
    IF sheet_name \notin SheetNames(wb)
    THEN SheetNotFound(<<sheet_name>>, wb.sheetnames)
    ELSE Return(UntilFirstBlank(KeyColumn(wb, sheet_name)))

\* the alias chosen by the sheet order of the workbook instead of the order
\* of the alias list
FirstAliasBySheetOrder(aliases, sheetnames) ==
    LET found == {i \in 1..Len(sheetnames) :
                    \E a \in 1..Len(aliases) : aliases[a] = sheetnames[i]}
    IN  IF found = {} THEN 0
        ELSE LET first == CHOOSE i \in found : \A j \in found : i <= j
             IN  CHOOSE a \in 1..Len(aliases) : aliases[a] = sheetnames[first]

\* for name in aliases: if name in wb.sheetnames: ws = wb[name]; break
\* (the index of the alias found, 0 when ws stays None)
FirstAlias(aliases, sheetnames) ==
    IF \E a \in 1..Len(aliases) : \E i \in 1..Len(sheetnames) : aliases[a] = sheetnames[i]
    THEN CHOOSE a \in 1..Len(aliases) :
            /\ \E i \in 1..Len(sheetnames) : aliases[a] = sheetnames[i]
            /\ \A b \in 1..(a - 1) : \A i \in 1..Len(sheetnames) : aliases[b] # sheetnames[i]
    ELSE 0

\* load_jeves_vendor_ordering(path)
load_jeves_vendor_ordering(wb) ==
    LET a == FirstAlias(JEEVES_VENDOR_OS_SHEETS, wb.sheetnames)
    IN  IF a = 0 THEN SheetNotFound(JEEVES_VENDOR_OS_SHEETS, wb.sheetnames)
        ELSE Return(NonBlankStripped(KeyColumn(wb, JEEVES_VENDOR_OS_SHEETS[a])))

\* load_jeves_customer_invoice(path)
load_jeves_customer_invoice(wb) ==
    IF JEEVES_CUSTOMER_INVOICE_SHEET \notin SheetNames(wb)
    THEN SheetNotFound(<<JEEVES_CUSTOMER_INVOICE_SHEET>>, wb.sheetnames)
    ELSE Return(NonBlankStripped(KeyColumn(wb, JEEVES_CUSTOMER_INVOICE_SHEET)))

\* the loop of load_jeves_customer_ordering: the codes that
\* _jeves_os_customer_code_raw does not give as None, or its exception
RawCodes(cells) ==
    LET codes == [i \in 1..Len(cells) |-> _jeves_os_customer_code_raw(cells[i])]
        raised == {i \in 1..Len(cells) : codes[i].kind = "raise"}
        vals == [i \in 1..Len(cells) |-> codes[i].val]
    IN  IF raised # {}
        THEN codes[CHOOSE i \in raised : \A j \in raised : i <= j]
        ELSE Return(SelectSeq(vals, LAMBDA v : v # None))

\* load_jeves_customer_ordering(path)
load_jeves_customer_ordering(wb) ==
    LET a == FirstAlias(JEEVES_CUSTOMER_OS_SHEETS, wb.sheetnames)
    IN  IF a = 0 THEN SheetNotFound(JEEVES_CUSTOMER_OS_SHEETS, wb.sheetnames)
        ELSE RawCodes(KeyColumn(wb, JEEVES_CUSTOMER_OS_SHEETS[a]))

(* The workbooks explored *)

SheetNamePool ==
    {"Invoice", "OrderingShipping", "INVOICECUSTOMER", "ORDERSHIPPING",
     "ODERSHIPPING", "ORDERINGSHIPPING"}

\* the sheet names of one workbook differ, also when case is ignored
SheetNameLists ==
    {n \in UNION {[1..k -> SheetNamePool] : k \in 1..MaxSheets} :
        /\ \A i, j \in 1..Len(n) : i # j => n[i] # n[j]
        /\ ~({"OrderingShipping", "ORDERINGSHIPPING"} \subseteq {n[i] : i \in 1..Len(n)})}

\* the key columns a sheet at position i may hold: codes without a gap (a
\* text and a number), an empty cell between two codes, a whitespace cell
\* before a code, no data row
SheetColumns(i) ==
    {<<PyStr(NatToStr(i)), PyInt(10 + i)>>,
     <<PyStr(NatToStr(i)), None, PyStr(<<" ">> \o NatToStr(20 + i) \o <<" ">>)>>,
     <<PyStr(<<" ">>), PyStr(NatToStr(30 + i))>>,
     <<>>}

Workbooks ==
    {[sheetnames |-> n, cells |-> c] :
        <<n, c>> \in {<<n, c>> \in SheetNameLists
                                    \X UNION {[1..k -> UNION {SheetColumns(i) : i \in 1..MaxSheets}] : k \in 1..MaxSheets} :
                        /\ Len(c) = Len(n)
                        /\ \A i \in 1..Len(c) : c[i] \in SheetColumns(i)}}

WorkbookInit ==
    /\ workbook \in Workbooks
    /\ sheet = Pending
    /\ extractOut = Pending
    /\ NormIdle /\ RangeIdle /\ RecIdle /\ DiffIdle /\ RunIdle /\ OrchIdle

LoadCtColumn ==
    /\ extractOut = Pending
    /\ \E sheet_name \in {CT_SHEET_INVOICE, CT_SHEET_ORDERING} :
            extractOut' = [fn |-> "load_ct_column", sheet_name |-> sheet_name,
                           res |-> load_ct_column(workbook, sheet_name)]
    /\ UNCHANGED <<sheet, workbook, normVars, rangeVars, recVars, diffVars, runVars,
                   orchVars>>

LoadJevesVendorOrdering ==
    /\ extractOut = Pending
    /\ extractOut' = [fn |-> "load_jeves_vendor_ordering",
                      res |-> load_jeves_vendor_ordering(workbook)]
    /\ UNCHANGED <<sheet, workbook, normVars, rangeVars, recVars, diffVars, runVars,
                   orchVars>>

LoadJevesCustomerInvoice ==
    /\ extractOut = Pending
    /\ extractOut' = [fn |-> "load_jeves_customer_invoice",
                      res |-> load_jeves_customer_invoice(workbook)]
    /\ UNCHANGED <<sheet, workbook, normVars, rangeVars, recVars, diffVars, runVars,
                   orchVars>>

LoadJevesCustomerOrdering ==
    /\ extractOut = Pending
    /\ extractOut' = [fn |-> "load_jeves_customer_ordering",
                      res |-> load_jeves_customer_ordering(workbook)]
    /\ UNCHANGED <<sheet, workbook, normVars, rangeVars, recVars, diffVars, runVars,
                   orchVars>>

WorkbookNext ==
    \/ LoadCtColumn
    \/ LoadJevesVendorOrdering
    \/ LoadJevesCustomerInvoice
    \/ LoadJevesCustomerOrdering

SpecWorkbook == WorkbookInit /\ [][WorkbookNext]_vars

-----------------------------------------------------------------------------
(* One market run: run_invoice_ordering_reconciliation, from the key cells of
   the source sheets to the bundle of five sheets *)

\* _normalize(df): cast to Utf8, strip, drop the null and the empty keys
_normalize(values) ==
    {Strip(CastUtf8(values[i])) : i \in {i \in 1..Len(values) : values[i] # None}} \ {<<>>}

\* _normalize_os_codes(df), on the keys _normalize left
_normalize_os_codes(keys) ==
    {_os_customer_code_to_str(PyStr(c)).val.s : c \in keys} \ {<<>>}

\* the values each loader of the invoice sheets returns for its key cells
InvoiceValues(source, cells) ==
    CASE source = "stibo_v" -> NonBlank(cells)
      [] source = "stibo_c" -> NonBlankStripped(cells)
      [] source \in {"ct_v", "ct_c"} -> UntilFirstBlank(cells)
      [] source = "jeves_v" -> NonBlank(cells)
      [] source = "jeves_c" -> NonBlankStripped(cells)

\* the values each loader of the ordering-shipping sheets returns
OrderingValues(source, cells) ==
    CASE source \in {"stibo_v", "stibo_c"} -> NonBlank(cells)
      [] source \in {"ct_v", "ct_c"} -> UntilFirstBlank(cells)
      [] source = "jeves_v" -> NonBlankStripped(cells)
      [] source = "jeves_c" -> RawCodes(cells).val

SHEET_PRODUCT == "Product"
SHEET_VENDOR_INVOICE == "Vendor Invoice"
SHEET_VENDOR_OS == "Vendor OS"
SHEET_CUSTOMER_INVOICE == "Customer Invoice"
SHEET_CUSTOMER_OS == "Customer OS"

\* the source columns of one entity
SrcCols(vendor) ==
    IF vendor THEN <<"STIBO_Vendor", "CT_Vendor", "JEEVES_Vendor">>
    ELSE <<"STIBO_Customer", "CT_Customer", "JEEVES_Customer">>

\* every row kept
AllRows(rows, src_cols) == rows

\* full_df.filter(mask): the rows with "X" in one of src_cols at least
MaskedRows(rows, src_cols) ==
    SelectSeq(rows, LAMBDA row : \E i \in 1..Len(src_cols) : row[src_cols[i]] = X)

\* _sheet_from_full(full_df, vendor), full_df having the six source columns
_sheet_from_full(full_df, vendor) ==
    LET src_cols == SrcCols(vendor)
        filtered == MaskedRows(full_df.rows, src_cols)
        out_cols == <<"Code">> \o src_cols
    IN  [columns |-> out_cols,
         rows |-> [i \in 1..Len(filtered) |->
                     [c \in {out_cols[j] : j \in 1..Len(out_cols)} |-> filtered[i][c]]]]

\* the frame written to the Product sheet
ProductSheet(product_df) ==
    [columns |-> <<"ProductCode", "CT", "JEEVES", "STIBO", "Absent_from">>,
     rows |-> IF product_df # None /\ Len(product_df.rows) > 0 THEN product_df.rows
              ELSE <<>>]

\* write_reconciliation_excel_5_tabs: the sheets of the workbook saved
write_reconciliation_excel_5_tabs(rec_invoice, rec_ordering, product_df) ==
    <<[name |-> SHEET_PRODUCT, df |-> ProductSheet(product_df)],
      [name |-> SHEET_VENDOR_INVOICE, df |-> _sheet_from_full(rec_invoice, TRUE)],
      [name |-> SHEET_VENDOR_OS, df |-> _sheet_from_full(rec_ordering, TRUE)],
      [name |-> SHEET_CUSTOMER_INVOICE, df |-> _sheet_from_full(rec_invoice, FALSE)],
      [name |-> SHEET_CUSTOMER_OS, df |-> _sheet_from_full(rec_ordering, FALSE)]>>

(* The source sheets explored *)

\* key cells of a vendor sheet: the code 9 as a number or as text
VendorCells ==
    {<<>>, <<PyInt(9)>>, <<PyFloat(FALSE, 9, 0)>>, <<PyStr(IntToStr(9))>>}
\* key cells of a customer sheet
CustomerCells ==
    {<<>>, <<PyStr(IntToStr(9))>>, <<PyStr(<<" ">> \o IntToStr(10))>>}

InvoiceBooks ==
    {f \in [SourceNames -> VendorCells \cup CustomerCells] :
        /\ \A n \in {"stibo_v", "ct_v", "jeves_v"} : f[n] \in VendorCells
        /\ \A n \in {"stibo_c", "ct_c", "jeves_c"} : f[n] \in CustomerCells}

OrderingBooks ==
    {[n \in SourceNames |-> <<>>],
     [n \in SourceNames |->
        IF n = "stibo_v" THEN <<PyInt(5)>>
        ELSE IF n = "jeves_c" THEN <<PyStr(IntToStr(5))>>
        ELSE <<>>]}

\* product_df: None, a frame without rows, the matrix of one product
ProductFrames ==
    {None, Frame(<<>>),
     create_range_reconciliation({PyStr(IntToStr(9))}, {PyStr(IntToStr(9))}, {},
                                 <<PyStr(IntToStr(9))>>, TRUE)}

InvoiceInit ==
    /\ books \in [invoice : InvoiceBooks, ordering : OrderingBooks,
                  product_df : ProductFrames]
    /\ invoice = Pending
    /\ srcs = Pending /\ rec = Pending
    /\ NormIdle /\ RangeIdle /\ DiffIdle /\ RunIdle /\ OrchIdle /\ ExtractIdle

\* run_invoice_ordering_reconciliation, lines 444-524
RunInvoiceOrderingReconciliation ==
    /\ invoice = Pending
    /\ \E inv \in {[n \in SourceNames |->
                        _normalize(InvoiceValues(n, books.invoice[n]))]} :
        \E ord \in {[n \in SourceNames |->
                        _normalize_os_codes(_normalize(OrderingValues(n, books.ordering[n])))]} :
            \E invOrder \in Orders(UnionOfSets(inv)) :
                \E ordOrder \in Orders(UnionOfSets(ord)) :
                    \E rec_invoice \in {build_reconciliation(inv, invOrder)} :
                        \E rec_ordering \in {build_reconciliation(ord, ordOrder)} :
                            invoice' =
                                [invoice_sets |-> inv,
                                 ordering_sets |-> ord,
                                 rec_invoice |-> rec_invoice,
                                 rec_ordering |-> rec_ordering,
                                 written |-> write_reconciliation_excel_5_tabs(
                                                rec_invoice, rec_ordering, books.product_df)]
    /\ UNCHANGED <<books, srcs, rec, normVars, rangeVars, diffVars, runVars, orchVars,
                   extractVars>>

InvoiceNext == RunInvoiceOrderingReconciliation

SpecInvoice == InvoiceInit /\ [][InvoiceNext]_vars

-----------------------------------------------------------------------------
(* Properties of the normalizers, under SpecNorm *)

Applied(fn) == normOut # Pending /\ normOut.fn = fn

\* an int, or a float with a zero fractional part
IsIntegerValued(v) == v.k \in {"int", "bigint"} \/ (v.k = "float" /\ v.frac = 0)
\* str(int(f)) of an integer-valued number
StrOfInteger(v) ==
    CASE v.k = "int" -> IntToStr(v.v)
      [] v.k = "bigint" -> SignedDigits(v.neg, v.d)
      [] v.k = "float" -> IntToStr(FloatToInt(v))

\* C4: clean_product_code maps every number that is mathematically an
\* integer, given as an int or as a float such as 1234.0, to the decimal
\* string of that integer, str(int(f)), without a trailing ".0".
NormalizeIntegerValued ==
    (Applied("clean_product_code") /\ IsIntegerValued(cell))
        => normOut.res = Return(PyStr(StrOfInteger(cell)))

\* a str of one or more characters, all whitespace
IsWhitespaceOnly(v) == v.k = "str" /\ v.s # <<>> /\ Strip(v.s) = <<>>

\* C5: clean_product_code returns None for a null input and for a string
\* made only of whitespace.
NormalizeBlankIsNone ==
    (Applied("clean_product_code") /\ (cell = None \/ IsWhitespaceOnly(cell)))
        => normOut.res = Return(None)

\* a float that is not an integer (a fractional part, nan, inf)
IsNonIntegerNumber(v) == (v.k = "float" /\ v.frac # 0) \/ v.k \in {"nan", "inf"}
\* a str that float() rejects, other than a blank one
IsNonNumericStr(v) == v.k = "str" /\ Strip(v.s) # <<>> /\ ~ParseFloat(v.s).ok
\* a str that float() reads as a number that is not an integer
IsNonIntegerNumericStr(v) ==
    v.k = "str" /\ ParseFloat(v.s).ok /\ ~ParsedIsInteger(ParseFloat(v.s).val)

\* C6: for a non-integer number and for a non-numeric string (and for a
\* non-integer numeric string with surrounding whitespace) clean_product_code
\* returns the string form with leading and trailing whitespace removed.
NormalizeOtherIsStripped ==
    (/\ Applied("clean_product_code")
     /\ (IsNonIntegerNumber(cell) \/ IsNonNumericStr(cell) \/ IsNonIntegerNumericStr(cell)))
        => normOut.res = Return(PyStr(Strip(Str(cell))))

\* n written with exactly four decimal digits
FourDigits(n) ==
    <<Digits[(n \div 1000) + 1], Digits[((n \div 100) % 10) + 1],
      Digits[((n \div 10) % 10) + 1], Digits[(n % 10) + 1]>>

InPadRange(n) == 0 <= n /\ n < 10000

\* the str cell is str(n) of an n of the padded range
IsStrOfPadRange(v) ==
    /\ v.k = "str"
    /\ IsDigitStr(v.s)
    /\ InPadRange(DigitsToInt(v.s))
    /\ v.s = IntToStr(DigitsToInt(v.s))

\* C7: for every integer n with 0 <= n < 10000 the zero-pad normalizer
\* gives n written with four digits both for the number n and for the digit
\* string str(n) (5 and "5" both give "0005"); the raw JEEVES reader pads
\* the number and its string output is padded by _os_customer_code_to_str,
\* which always follows it.
PaddedSameForIntAndStr ==
    /\ (Applied("_os_customer_code_to_str") /\ cell.k = "int" /\ InPadRange(cell.v))
            => normOut.res = Return(PyStr(FourDigits(cell.v)))
    /\ (Applied("_os_customer_code_to_str") /\ IsStrOfPadRange(cell))
            => normOut.res = Return(PyStr(FourDigits(DigitsToInt(cell.s))))
    /\ (Applied("_jeves_os_customer_code_raw") /\ cell.k = "int" /\ InPadRange(cell.v))
            => normOut.res = Return(PyStr(FourDigits(cell.v)))
    /\ (Applied("_jeves_os_customer_code_raw") /\ IsStrOfPadRange(cell))
            => /\ normOut.res.kind = "return"
               /\ _os_customer_code_to_str(normOut.res.val)
                      = Return(PyStr(FourDigits(DigitsToInt(cell.s))))

PaddedSameForIntAndStrWitness ==
    /\ Applied("_os_customer_code_to_str")
    /\ cell = PyStr(<<"9">>)
    /\ normOut.res = Return(PyStr(<<"0", "0", "0", "9">>))
    /\ _os_customer_code_to_str(PyInt(9)) = normOut.res

\* C8: both normalization variants return a value and never raise, for
\* every scalar cell value, floats that are not finite included.
NormalizersNeverRaise ==
    normOut # Pending => normOut.res.kind = "return"

\* the normalizer returned a value that is not None
ReturnedValue ==
    normOut # Pending /\ normOut.res.kind = "return" /\ normOut.res.val # None

\* C30: clean_product_code and _os_customer_code_to_str are idempotent on
\* their own outputs: for every input whose normalized value is not None,
\* normalizing that value again returns it unchanged.
NormalizeIdempotent ==
    /\ (Applied("clean_product_code") /\ ReturnedValue)
            => clean_product_code(normOut.res.val) = normOut.res
    /\ (Applied("_os_customer_code_to_str") /\ ReturnedValue)
            => _os_customer_code_to_str(normOut.res.val) = normOut.res

\* a number was padded to a string the second pass reads as a digit string
NormalizeIdempotentWitness ==
    /\ Applied("_os_customer_code_to_str")
    /\ cell = PyInt(9)
    /\ normOut.res = Return(PyStr(<<"0", "0", "0", "9">>))
    /\ _os_customer_code_to_str(normOut.res.val) = normOut.res


-----------------------------------------------------------------------------
(* Properties of the presence matrices, under SpecMatrix *)

RangeBuilt == range # Pending
RecBuilt == rec # Pending

RangeSources ==
    <<[name |-> NameCT, list |-> clean_and_convert(ct)],
      [name |-> NameJEEVES, list |-> clean_and_convert(jeves)],
      [name |-> NameSTIBO, list |-> clean_and_convert(stibo)]>>

RECURSIVE NamesWhereAbsent(_, _)
NamesWhereAbsent(code, sources) ==
    IF sources = <<>> THEN <<>>
    ELSE (IF code \in Head(sources).list THEN <<>> ELSE <<Head(sources).name>>)
            \o NamesWhereAbsent(code, Tail(sources))

ExpectedAbsentFrom(code) ==
    IF NamesWhereAbsent(code, RangeSources) = <<>> THEN <<"-">>
    ELSE ConcatStr(NamesWhereAbsent(code, RangeSources), CommaSpace)

\* C1: in every row of the product matrix that has a code, Absent_from is
\* "-" iff the code is in CT, JEEVES and STIBO, and otherwise is the names of
\* the sources that lack the code, in the order CT, JEEVES, STIBO, joined by
\* ", " with nothing else in between.
AbsentFromNamesAbsentSources ==
    RangeBuilt =>
        \A i \in 1..Len(range.rows) :
            range.rows[i].ProductCode # None =>
                range.rows[i].Absent_from = ExpectedAbsentFrom(range.rows[i].ProductCode)

RangeKeys == {range.rows[i].ProductCode : i \in 1..Len(range.rows)}
RecKeys == {rec.rows[i].Code : i \in 1..Len(rec.rows)}

\* C2: the keys of a presence matrix are exactly the union of the key sets of
\* its sources (three for the product matrix, six for build_reconciliation),
\* one row per key.
MatrixKeysAreUnion ==
    /\ RangeBuilt =>
        /\ RangeKeys = clean_and_convert(jeves) \cup clean_and_convert(ct)
                            \cup clean_and_convert(stibo)
        /\ Len(range.rows) = Cardinality(RangeKeys)
    /\ RecBuilt =>
        /\ RecKeys = UNION {srcs.sets[n] : n \in SourceNames}
        /\ Len(rec.rows) = Cardinality(RecKeys)

MatrixKeysAreUnionWitness ==
    /\ RangeBuilt
    /\ Len(range.rows) >= 3
    /\ clean_and_convert(stibo) \ (clean_and_convert(jeves) \cup clean_and_convert(ct)) # {}
    /\ clean_and_convert(jeves) \cap clean_and_convert(ct) # {}
    /\ None \notin RangeKeys

MembershipFlag(code, set) == IF code \in set THEN X ELSE Blank

\* C3: in every row of a presence matrix, the flag of a source is "X" iff the
\* row's key is in that source's key set, and "" otherwise.
FlagsAreMembership ==
    /\ RangeBuilt =>
        \A i \in 1..Len(range.rows) :
            /\ range.rows[i].CT = MembershipFlag(range.rows[i].ProductCode, clean_and_convert(ct))
            /\ range.rows[i].JEEVES =
                    MembershipFlag(range.rows[i].ProductCode, clean_and_convert(jeves))
            /\ range.rows[i].STIBO =
                    MembershipFlag(range.rows[i].ProductCode, clean_and_convert(stibo))
    /\ RecBuilt =>
        \A i \in 1..Len(rec.rows) :
            /\ rec.rows[i].STIBO_Vendor = MembershipFlag(rec.rows[i].Code, srcs.sets["stibo_v"])
            /\ rec.rows[i].STIBO_Customer = MembershipFlag(rec.rows[i].Code, srcs.sets["stibo_c"])
            /\ rec.rows[i].CT_Vendor = MembershipFlag(rec.rows[i].Code, srcs.sets["ct_v"])
            /\ rec.rows[i].CT_Customer = MembershipFlag(rec.rows[i].Code, srcs.sets["ct_c"])
            /\ rec.rows[i].JEEVES_Vendor = MembershipFlag(rec.rows[i].Code, srcs.sets["jeves_v"])
            /\ rec.rows[i].JEEVES_Customer = MembershipFlag(rec.rows[i].Code, srcs.sets["jeves_c"])

\* C9: the rows of every presence matrix are in ascending string order of
\* their key.
RowsAscendingByKey ==
    /\ RangeBuilt =>
        \A i, j \in 1..Len(range.rows) :
            (i < j /\ range.rows[i].ProductCode # None /\ range.rows[j].ProductCode # None)
                => SeqLess(range.rows[i].ProductCode.s, range.rows[j].ProductCode.s)
    /\ RecBuilt =>
        \A i, j \in 1..Len(rec.rows) :
            i < j => SeqLess(rec.rows[i].Code, rec.rows[j].Code)

RowsAscendingByKeyWitness ==
    /\ RecBuilt
    /\ Len(rec.rows) = 3
    /\ rec.rows[1].Code = <<"0", "0", "0", "5">>
    /\ rec.rows[2].Code = <<"1", "0">>
    /\ rec.rows[3].Code = <<"9">>
\* C23: no row of a presence matrix (product, invoice or ordering-shipping)
\* has a null or an empty-string key, also when a source sheet has rows
\* whose key cell is empty or holds only whitespace.
NoNullOrEmptyKey ==
    /\ RangeBuilt => RangeKeys \cap {None, PyStr(<<>>)} = {}
    /\ RecBuilt => <<>> \notin RecKeys

-----------------------------------------------------------------------------
(* Properties of the comparison of two versions, under SpecDiff *)

Elements(seq) == {seq[i] : i \in 1..Len(seq)}
Ascending(seq) == \A i \in 1..(Len(seq) - 1) : SeqLess(seq[i], seq[i + 1])

\* C10: _diff_codes returns as added the keys of the newer version that the
\* older lacks, as removed the keys of the older that the newer lacks, both
\* in ascending key order, and as unchanged the number of keys in both.
DiffIsSortedDifference ==
    diffOut # Pending =>
        /\ Elements(diffOut.added) = CodeSet(dfNew) \ CodeSet(dfOld)
        /\ Ascending(diffOut.added)
        /\ Elements(diffOut.removed) = CodeSet(dfOld) \ CodeSet(dfNew)
        /\ Ascending(diffOut.removed)
        /\ diffOut.unchanged = Cardinality(CodeSet(dfOld) \cap CodeSet(dfNew))

DiffIsSortedDifferenceWitness ==
    /\ dfOld = Column({PyInt(1), PyInt(2), PyInt(3)})
    /\ dfNew = Column({PyInt(2), PyInt(3), PyInt(4)})
    /\ diffOut = [added |-> <<<<"4">>>>, removed |-> <<<<"1">>>>, unchanged |-> 2]

\* C11: comparing a key set with itself gives nothing added, nothing removed
\* and unchanged = the size of the set; and what a comparison reports as
\* added (removed) is what the comparison the other way round reports as
\* removed (added).
DiffIdentityAndSymmetry ==
    diffOut # Pending =>
        /\ CodeSet(dfOld) = CodeSet(dfNew) =>
            /\ diffOut.added = <<>>
            /\ diffOut.removed = <<>>
            /\ diffOut.unchanged = Cardinality(CodeSet(dfOld))
        /\ \A orderAdded \in Orders(Added(CodeSet(dfNew), CodeSet(dfOld))) :
            \A orderRemoved \in Orders(Removed(CodeSet(dfNew), CodeSet(dfOld))) :
                /\ diffOut.added = _diff_codes(dfNew, dfOld, orderAdded, orderRemoved).removed
                /\ diffOut.removed = _diff_codes(dfNew, dfOld, orderAdded, orderRemoved).added

DiffIdentityAndSymmetryWitness ==
    /\ dfOld = Column({PyInt(1), PyInt(2)})
    /\ dfNew = Column({PyStr(<<"1">>), PyStr(<<"2">>)})
    /\ diffOut = [added |-> <<>>, removed |-> <<>>, unchanged |-> 2]

OlderAbsent == dfOld = NoFrame \/ dfOld.cells = {}

\* C12: when the older version is None or has no rows, the comparison
\* returns the keys of the newer version, sorted, as added, nothing as
\* removed, and unchanged = 0.
DiffAgainstAbsentOlder ==
    (diffOut # Pending /\ OlderAbsent) =>
        /\ Elements(diffOut.added) = CodeSet(dfNew)
        /\ Ascending(diffOut.added)
        /\ diffOut.removed = <<>>
        /\ diffOut.unchanged = 0

DiffAgainstAbsentOlderWitness ==
    /\ dfOld = NoFrame
    /\ dfNew = Column({PyInt(2), PyInt(10)})
    /\ diffOut = [added |-> <<<<"1", "0">>, <<"2">>>>, removed |-> <<>>, unchanged |-> 0]

-----------------------------------------------------------------------------
(* Properties of the history view, under SpecHistory *)

\* C13: whatever two loaded sheets the history view compares, one of them
\* lacking the key column included, the view gets a diff result (or shows a
\* warning), never an exception.
HistoryDiffNeverRaises ==
    diffOut # Pending => diffOut.kind # "raise"

-----------------------------------------------------------------------------
(* Properties of the version list, under SpecVersions *)

\* the day and the month a folder name DDMM denotes
DayOf(name) == DigitsToInt(SubSeq(name, 1, 2))
MonthOf(name) == DigitsToInt(SubSeq(name, 3, 4))

\* the run named a is later in the year than the run named b
LaterRun(a, b) ==
    \/ MonthOf(a) > MonthOf(b)
    \/ MonthOf(a) = MonthOf(b) /\ DayOf(a) > DayOf(b)

\* C29: list_output_versions returns the version folders newest first, a
\* folder DDMM being day DD of month MM (2302 = 23 Feb, 0203 = 2 Mar): its
\* first element, the default 'latest' of the dashboard, is the latest run.
VersionsNewestFirst ==
    versions # Pending =>
        \A i, j \in 1..Len(versions.val) :
            i < j => LaterRun(versions.val[i], versions.val[j])

-----------------------------------------------------------------------------
(* Properties of the product run, under SpecRun *)

\* lines 408-424 have been run and the rest of main has not: the files and
\* the record are those the decision was taken on
DecisionTaken == run.pc = "decided"
DecisionFailed == run.pc = "failed" /\ run.error = "AttributeError"

\* the record file is a mapping that holds an input_hash
RecordHasHash ==
    /\ hashFile \notin {Absent, Unparseable, None}
    /\ hashFile.k = "dict"
    /\ hashFile.input_hash # NoMember

\* a fingerprint was computed and it is the input_hash of the saved record
SameFingerprint ==
    /\ get_input_files_hash(inputs) # None
    /\ RecordHasHash
    /\ hashFile.input_hash = get_input_files_hash(inputs)

\* C14: the run decides to overwrite the existing artifact only when a
\* fingerprint was computed and equals the input_hash of the saved record;
\* in every other case it chooses a new name carrying the timestamp.
OverwriteOnlyOnSameFingerprint ==
    (DecisionTaken \/ DecisionFailed) =>
        IF SameFingerprint
        THEN run.branch = "overwrite"
        ELSE run.branch = "new" /\ run.output_file_range = Timestamped(clock)

SomeInputMissing == \E f \in InputFileSet : inputs[f] = Missing

\* C15: when one of the input files is missing, get_input_files_hash
\* returns None whatever the other files hold, and the run does not take the
\* overwrite branch, a saved record or not.
MissingInputNeverOverwrites ==
    (run.pc # "idle" /\ SomeInputMissing) =>
        /\ get_input_files_hash(inputs) = None
        /\ run.current_input_hash = None
        /\ run.branch = "new"

MissingInputNeverOverwritesWitness ==
    /\ DecisionTaken
    /\ inputs[InputFiles[1]] # Missing
    /\ inputs[InputFiles[2]] = Missing
    /\ inputs[InputFiles[3]] # Missing
    /\ RecordHasHash
    /\ run.branch = "new"

\* C16: a record file that cannot be parsed, or that is not a mapping
\* holding an input_hash, is treated as no record: the run does not fail on
\* it and chooses a new name carrying the timestamp.
CorruptRecordIsAbsent ==
    ((DecisionTaken \/ DecisionFailed) /\ hashFile # Absent /\ ~RecordHasHash) =>
        /\ run.pc # "failed"
        /\ run.branch = "new"
        /\ run.output_file_range = Timestamped(clock)

\* C17: the record file changes only in the step after the artifact was
\* written, of a run that computed a fingerprint, and then holds that
\* fingerprint, which is the one of the files as they are, with the path of
\* the artifact just written.
RecordWrittenAfterArtifact ==
    [][hashFile' # hashFile =>
            /\ run.pc = "written"
            /\ run.current_input_hash # None
            /\ run.current_input_hash = get_input_files_hash(inputs)
            /\ outputs # <<>>
            /\ outputs[Len(outputs)] = run.output_file_range
            /\ hashFile'.k = "dict"
            /\ hashFile'.input_hash = run.current_input_hash
            /\ hashFile'.output_file = run.output_file_range]_vars

RecordWrittenAfterArtifactWitness ==
    /\ run.pc = "done"
    /\ run.branch = "new"
    /\ run.output_file_range = Timestamped(2)
    /\ outputs = <<Timestamped(1), Timestamped(2)>>
    /\ hashFile = JDict(get_input_files_hash(inputs), Timestamped(2))

\* C18: the fingerprint depends on the contents of the input files only:
\* computed again over the same files it is the same, and with the content
\* of any one file changed it is another.
FingerprintFollowsContents ==
    (DecisionTaken /\ run.current_input_hash # None) =>
        /\ run.current_input_hash = get_input_files_hash(inputs)
        /\ \A f \in InputFileSet : \A c \in Contents \ {inputs[f]} :
                get_input_files_hash([inputs EXCEPT ![f] = c]) # run.current_input_hash

FingerprintFollowsContentsWitness ==
    /\ DecisionTaken
    /\ run.current_input_hash # None
    /\ inputs[InputFiles[1]] # inputs[InputFiles[2]]
    /\ run.branch = "overwrite"

-----------------------------------------------------------------------------
(* Properties of the orchestrator, under SpecOrch *)

\* main has ended, normally or by an exception
OrchEnded == orch.pc \in {"done", "crashed"}

SkippedUnits == {orch.skipped[i].unit : i \in 1..Len(orch.skipped)}
GeneratedFiles == {orch.generated_files[i] : i \in 1..Len(orch.generated_files)}
RequestedMarkets == {MarketsToRun(args.market)[i] : i \in 1..Len(MarketsToRun(args.market))}

\* C19: when the extraction of a market fails, for a missing source file or
\* for a missing sheet or column, the orchestrator lists the market as
\* skipped, goes on with every remaining market, and reports the generated
\* and the skipped at the end.
MarketFailuresAreSkipped ==
    OrchEnded =>
        /\ orch.reported
        /\ \A market \in RequestedMarkets :
                IF extraction[market] = "ok"
                THEN OutPath(market) \in GeneratedFiles
                ELSE market \in SkippedUnits

\* C27: with the product domain selected and the product sources present
\* and well formed, the product domain is not listed as skipped and the
\* product matrix is what every market's bundle gets for its Product sheet.
ProductMatrixReachesBundles ==
    (orch.pc # "product" /\ args.domains \in {"product", "all"}) =>
        /\ "Product" \notin SkippedUnits
        /\ orch.product_df # None

-----------------------------------------------------------------------------
(* Properties of the extractors, under SpecExtract *)

\* the header aliases each extractor declares
AliasesOf(fn) ==
    CASE fn = "load_stibo_vendor_invoice_2302" -> {<<"s", "u", "v", "c", "i", "n", "v", "o", "i", "c", "e">>, <<"s", "u", "v", "c", "-", "i", "n", "v", "o", "i", "c", "e">>}
      [] fn = "load_stibo_os_vendors" -> {<<"s", "u", "v", "c", "o", "r", "d", "e", "r", "i", "n", "g", "/", "s", "h", "i", "p", "p", "i", "n", "g">>}
      [] fn = "load_stibo_customer_invoice" -> {<<"i", "n", "v", "o", "i", "c", "e", "c", "u", "s", "t", "o", "m", "e", "r", "c", "o", "d", "e">>}
      [] fn = "load_jeves_vendor_invoice" -> {<<"s", "u", "v", "c", "-", "i", "n", "v", "o", "i", "c", "e">>}

\* C20: when no header of the sheet matches an alias the extractor
\* declares, the extraction fails with an error that names the column and
\* the headers found; no values are returned.
HeaderNotFoundIsAnError ==
    (extractOut # Pending /\ FirstHeader(sheet.headers, AliasesOf(extractOut.fn)) = 0) =>
        /\ extractOut.res.kind = "raise"
        /\ extractOut.res.exc.type = "ValueError"
        /\ extractOut.res.exc.available \in {sheet.headers, NamedHeaders(sheet.headers)}

-----------------------------------------------------------------------------
(* Properties of the extractors that pick a sheet by name, under SpecWorkbook *)

ExtractReturned == extractOut # Pending /\ extractOut.res.kind = "return"

\* the aliases a JEEVES ordering-shipping extractor declares
OrderingAliases(fn) ==
    IF fn = "load_jeves_vendor_ordering" THEN JEEVES_VENDOR_OS_SHEETS
    ELSE JEEVES_CUSTOMER_OS_SHEETS

\* the positions, in the alias list, of the aliases that name a sheet
AliasesPresent(aliases) ==
    {a \in 1..Len(aliases) : aliases[a] \in SheetNames(workbook)}

\* the earliest alias of the list that names a sheet of the workbook
EarliestAlias(aliases) ==
    aliases[CHOOSE a \in AliasesPresent(aliases) : \A b \in AliasesPresent(aliases) : a <= b]

\* the sheet whose key column the extractor has to read
SheetToRead ==
    CASE extractOut.fn = "load_ct_column" -> extractOut.sheet_name
      [] extractOut.fn = "load_jeves_customer_invoice" -> JEEVES_CUSTOMER_INVOICE_SHEET
      [] OTHER -> EarliestAlias(OrderingAliases(extractOut.fn))

\* C21: an extractor returns every non-blank value of its key column, from
\* the data start row to the last row of the sheet: a blank cell drops
\* only itself, never the non-blank values below it.
BlankCellDropsOnlyItself ==
    ExtractReturned =>
        Len(extractOut.res.val) = Len(NonBlank(KeyColumn(workbook, SheetToRead)))

\* C22: a JEEVES ordering-shipping extractor reads the sheet named by the
\* first alias of its declared list that exists in the workbook, whatever
\* the order of the sheets, and raises an error naming the aliases tried and
\* the sheets available iff no alias names a sheet.
FirstDeclaredAliasIsRead ==
    (extractOut # Pending
        /\ extractOut.fn \in {"load_jeves_vendor_ordering", "load_jeves_customer_ordering"}) =>
        LET aliases == OrderingAliases(extractOut.fn)
        IN  IF AliasesPresent(aliases) = {}
            THEN extractOut.res =
                    Raise([type |-> "ValueError", tried |-> aliases,
                           available |-> workbook.sheetnames])
            ELSE /\ extractOut.res.kind = "return"
                 /\ extractOut.res.val =
                        IF extractOut.fn = "load_jeves_vendor_ordering"
                        THEN NonBlankStripped(KeyColumn(workbook, EarliestAlias(aliases)))
                        ELSE RawCodes(KeyColumn(workbook, EarliestAlias(aliases))).val

\* the second alias of the list is the first sheet of the workbook, the
\* first alias its second sheet, and the codes of the second sheet are read
FirstDeclaredAliasIsReadWitness ==
    /\ extractOut # Pending
    /\ extractOut.fn = "load_jeves_vendor_ordering"
    /\ workbook.sheetnames = <<"ODERSHIPPING", "ORDERSHIPPING">>
    /\ extractOut.res.kind = "return"
    /\ extractOut.res.val # <<>>
    /\ extractOut.res.val = NonBlankStripped(workbook.cells[2])
    /\ extractOut.res.val # NonBlankStripped(workbook.cells[1])

-----------------------------------------------------------------------------
(* Properties of a market run, under SpecInvoice *)

InvoiceRan == invoice # Pending

\* the sheet of the written bundle called name
WrittenSheet(name) ==
    invoice.written[CHOOSE s \in 1..Len(invoice.written) : invoice.written[s].name = name].df

\* the three flag columns of one entity, and the sources they stand for
EntityColumns(vendor) ==
    IF vendor THEN {"STIBO_Vendor", "CT_Vendor", "JEEVES_Vendor"}
    ELSE {"STIBO_Customer", "CT_Customer", "JEEVES_Customer"}
EntitySources(vendor) ==
    IF vendor THEN {"stibo_v", "ct_v", "jeves_v"} ELSE {"stibo_c", "ct_c", "jeves_c"}

\* C24: every sheet of the bundle (Product, Vendor Invoice, Vendor OS,
\* Customer Invoice, Customer OS) has a key column, one flag column per
\* source and a last column Absent_from that holds "-" or the list of the
\* absent sources.
BundleSheetsFollowConvention ==
    InvoiceRan =>
        \A s \in 1..Len(invoice.written) :
            LET df == invoice.written[s].df
            IN  /\ Len(df.columns) >= 3
                /\ df.columns[Len(df.columns)] = "Absent_from"
                /\ \A i \in 1..Len(df.rows) : df.rows[i].Absent_from # <<>>

\* view is the entity's part of full: the rows of full with "X" in one of the
\* entity's three columns, with the key and these three flags
IsEntityView(view, full, vendor) ==
    LET kept == {i \in 1..Len(full.rows) :
                    \E c \in EntityColumns(vendor) : full.rows[i][c] = X}
    IN  /\ Len(view.rows) = Cardinality(kept)
        /\ \A i \in kept : \E r \in 1..Len(view.rows) :
                /\ view.rows[r].Code = full.rows[i].Code
                /\ \A c \in EntityColumns(vendor) : view.rows[r][c] = full.rows[i][c]
        /\ \A r \in 1..Len(view.rows) : \E i \in kept :
                view.rows[r].Code = full.rows[i].Code

ViewKeys(view) == {view.rows[r].Code : r \in 1..Len(view.rows)}

\* C25: the Vendor (Customer) view _sheet_from_full derives from a six-source
\* matrix holds exactly the rows of the matrix with "X" in one of the three
\* Vendor (Customer) columns, these flags unchanged; its keys are the union
\* of the three vendor (customer) source sets.
EntityViewIsFilteredMatrix ==
    InvoiceRan =>
        /\ IsEntityView(WrittenSheet(SHEET_VENDOR_INVOICE), invoice.rec_invoice, TRUE)
        /\ IsEntityView(WrittenSheet(SHEET_CUSTOMER_INVOICE), invoice.rec_invoice, FALSE)
        /\ IsEntityView(WrittenSheet(SHEET_VENDOR_OS), invoice.rec_ordering, TRUE)
        /\ IsEntityView(WrittenSheet(SHEET_CUSTOMER_OS), invoice.rec_ordering, FALSE)
        /\ \A vendor \in BOOLEAN :
            /\ ViewKeys(WrittenSheet(IF vendor THEN SHEET_VENDOR_INVOICE
                                     ELSE SHEET_CUSTOMER_INVOICE))
                    = UNION {invoice.invoice_sets[n] : n \in EntitySources(vendor)}
            /\ ViewKeys(WrittenSheet(IF vendor THEN SHEET_VENDOR_OS ELSE SHEET_CUSTOMER_OS))
                    = UNION {invoice.ordering_sets[n] : n \in EntitySources(vendor)}

\* a code seen only by vendor sources and a code seen only by customer
\* sources: each is in the view of its entity and not in the other
EntityViewIsFilteredMatrixWitness ==
    /\ InvoiceRan
    /\ Len(invoice.rec_invoice.rows) = 2
    /\ ViewKeys(WrittenSheet(SHEET_VENDOR_INVOICE)) = {IntToStr(9)}
    /\ ViewKeys(WrittenSheet(SHEET_CUSTOMER_INVOICE)) = {IntToStr(10)}

\* the number a key cell holds
LogicalCode(v) ==
    CASE v.k = "int" -> v.v
      [] v.k = "float" -> FloatToInt(v)
      [] v.k = "str" -> DigitsToInt(Strip(v.s))

\* the codes in the key cells of the invoice sheets
InvoiceCodes ==
    {LogicalCode(books.invoice[n][i]) :
        <<n, i>> \in {<<n, i>> \in SourceNames \X {1} : i <= Len(books.invoice[n])}}

\* C28: in the invoice pipeline a code gives one key whatever the type of
\* its cell: 9.0, 9 and "9" read from different sources all give the key
\* "9", on a single row of the matrix.
OneKeyForEveryCellType ==
    InvoiceRan =>
        /\ Len(invoice.rec_invoice.rows) = Cardinality(InvoiceCodes)
        /\ \A i \in 1..Len(invoice.rec_invoice.rows) :
                invoice.rec_invoice.rows[i].Code \in {IntToStr(c) : c \in InvoiceCodes}

====
